---- MODULE Spec2Model ----
(***************************************************************************)
(* Offline analysis core of the Godot MCP server: the GDScript parser, the *)
(* TSCN scene parser and the ProjectAnalyzer that caches their results.    *)
(*                                                                         *)
(* Text is modelled as a sequence of lexical tokens.  "NL" is the line     *)
(* break, "SP" one blank; every other token is a maximal run of word       *)
(* characters or one punctuation mark.  The regular expressions of the     *)
(* parsers are matched on that token sequence, with the anchors, the       *)
(* greedy/lazy quantifiers and the non-overlapping left-to-right scanning  *)
(* of re.finditer.                                                         *)
(***************************************************************************)
EXTENDS Integers, Sequences, FiniteSets, TLC

VARIABLES
    gd_content,     \* script text handed to GDScriptParser.parse_content
    gd_class,       \* the GDClass it returned (None before the call)
    tscn_content,   \* scene text handed to TscnParser.parse_content
    scene,          \* the TscnScene it returned (None before the call)
    disk,           \* the project tree: path -> file state
    _scripts,       \* ProjectAnalyzer._scripts: path -> GDClass
    _scenes,        \* ProjectAnalyzer._scenes: path -> TscnScene
    _project_info,  \* ProjectAnalyzer._project_info
    result,         \* what the last analyzer call returned (or raised)
    walks,          \* project walks (rglob) done so far, per kind of file
    edits,          \* changes made to the project tree so far
    _active_project,\* server._active_project
    _analyzer,      \* server._analyzer: the ProjectAnalyzer whose fields are
                    \* _scripts, _scenes and _project_info (None before the first)
    tool_result,    \* what the last call_tool answered
    loop            \* the event loop: the call_tool coroutines and the one running

vars == <<gd_content, gd_class, tscn_content, scene, disk, _scripts, _scenes,
          _project_info, result, walks, edits, _active_project, _analyzer,
          tool_result, loop>>

\* Python's None: as a name or a type, as an object, and as a captured text
\* (a captured text is a token sequence; no capture group here can be empty
\* where the code tells None from "")
None == "None"
NoObject == [none |-> TRUE]
NoText == <<>>

(***************************************************************************)
(* Bounds                                                                  *)
(***************************************************************************)
MaxLines == 3
MaxStanzas == 3
MaxEdits == 1
MaxWalks == 2
MaxProperties == 3
MaxCallers == 2

(***************************************************************************)
(* Sequence helpers                                                        *)
(***************************************************************************)
Range(s) == {s[i] : i \in 1..Len(s)}

RECURSIVE SeqsUpTo(_, _)
SeqsUpTo(S, n) ==
    IF n = 0 THEN {<<>>}
    ELSE LET shorter == SeqsUpTo(S, n - 1)
         IN  shorter \cup {Append(q, x) : q \in {r \in shorter : Len(r) = n - 1}, x \in S}

RECURSIVE Count(_, _)
Count(s, x) ==
    IF s = <<>> THEN 0
    ELSE (IF Head(s) = x THEN 1 ELSE 0) + Count(Tail(s), x)

RECURSIVE Flatten(_)
Flatten(ss) == IF ss = <<>> THEN <<>> ELSE Head(ss) \o Flatten(Tail(ss))

(***************************************************************************)
(* GDScript text                                                           *)
(***************************************************************************)
WordTokens == {"var", "signal", "func", "static", "const", "preload", "load",
               "health", "speed", "died", "amount", "hit", "int", "100",
               "0", "10", "note", "X", "s", "mesh", "size"}
PathTokens == {"res://hud.tscn", "res://game.gd"}
ExportTokens == {"@export", "@export_range"}

IsSpace(t) == t \in {"SP", "NL"}
IsWord(t) == t \in WordTokens

\* @export var health: int = 100
ExportVarLine == <<"@export", "SP", "var", "SP", "health", "COLON", "SP", "int",
                   "SP", "EQ", "SP", "100">>
\* @export
ExportOnlyLine == <<"@export">>
\* @export_range(0, 10)
ExportRangeLine == <<"@export_range", "LP", "0", "COMMA", "SP", "10", "RP">>
\* var health: int = 100
VarLine == <<"var", "SP", "health", "COLON", "SP", "int", "SP", "EQ", "SP", "100">>
\* var speed # note
VarCommentLine == <<"var", "SP", "speed", "SP", "HASH", "SP", "note">>
\*     var speed        (indented: local to a function body)
IndentedVarLine == <<"SP", "var", "SP", "speed">>
\* signal died(amount)
SignalLine == <<"signal", "SP", "died", "LP", "amount", "RP">>
\* static func hit(amount, speed) -> int
FuncLine == <<"static", "SP", "func", "SP", "hit", "LP", "amount", "COMMA", "SP",
              "speed", "RP", "SP", "ARROW", "SP", "int">>
BlankLine == <<>>
\* signal            (the keyword alone: a declaration being typed)
BareSignalLine == <<"signal">>
\* const X = preload("res://hud.tscn")
PreloadLine == <<"const", "SP", "X", "SP", "EQ", "SP", "preload", "LP", "Q",
                 "res://hud.tscn", "Q", "RP">>
\* var s = load("res://game.gd")
LoadLine == <<"var", "SP", "s", "SP", "EQ", "SP", "load", "LP", "Q",
              "res://game.gd", "Q", "RP">>

ScriptLines == {ExportVarLine, ExportOnlyLine, ExportRangeLine, VarLine,
                VarCommentLine, IndentedVarLine, SignalLine, FuncLine,
                BlankLine, BareSignalLine, PreloadLine, LoadLine}

\* '\n'.join(lines)
RECURSIVE JoinLines(_)
JoinLines(ls) ==
    IF ls = <<>> THEN <<>>
    ELSE IF Len(ls) = 1 THEN ls[1]
    ELSE ls[1] \o <<"NL">> \o JoinLines(Tail(ls))

\* content.split('\n')
RECURSIVE SplitLines(_)
SplitLines(s) ==
    IF \A i \in 1..Len(s) : s[i] # "NL" THEN <<s>>
    ELSE LET k == CHOOSE i \in 1..Len(s) :
                      s[i] = "NL" /\ \A j \in 1..(i - 1) : s[j] # "NL"
         IN  <<SubSeq(s, 1, k - 1)>> \o SplitLines(SubSeq(s, k + 1, Len(s)))

ScriptTexts == {JoinLines(ls) : ls \in SeqsUpTo(ScriptLines, MaxLines)}

(***************************************************************************)
(* Regular-expression primitives on token sequences                        *)
(***************************************************************************)
Tok(s, i) == IF i >= 1 /\ i <= Len(s) THEN s[i] ELSE "EOF"

\* ^ under re.MULTILINE
AtLineStart(s, i) == i = 1 \/ Tok(s, i - 1) = "NL"

\* $ under re.MULTILINE
AtLineEnd(s, i) == i = Len(s) + 1 \/ Tok(s, i) = "NL"

\* \s* (greedy; the token that has to follow is never a blank)
RECURSIVE SkipSpace(_, _)
SkipSpace(s, i) ==
    IF i <= Len(s) /\ IsSpace(s[i]) THEN SkipSpace(s, i + 1) ELSE i

\* .*?t : the first t at or after i on the same line, 0 when there is none
RECURSIVE FindOnLine(_, _, _)
FindOnLine(s, i, t) ==
    IF i > Len(s) \/ s[i] = "NL" THEN 0
    ELSE IF s[i] = t THEN i
    ELSE FindOnLine(s, i + 1, t)

\* (?:\s*#|$)
TailOK(s, p) == Tok(s, SkipSpace(s, p)) = "HASH" \/ AtLineEnd(s, p)
TailEnd(s, p) == IF Tok(s, SkipSpace(s, p)) = "HASH" THEN SkipSpace(s, p) + 1 ELSE p

\* (.+?) in front of (?:\s*#|$): the last token of the shortest value from q
RECURSIVE LazyValueEnd(_, _)
LazyValueEnd(s, q) == IF TailOK(s, q + 1) THEN q ELSE LazyValueEnd(s, q + 1)

NoMatch == [ok |-> FALSE]

\* re.finditer over the matches M[i] of a pattern at every offset i:
\* left to right, the next search starts where the last match ended
RECURSIVE FindIter(_, _)
FindIter(M, pos) ==
    IF pos > Len(M) THEN <<>>
    ELSE IF M[pos].ok
         THEN <<M[pos]>> \o FindIter(M, IF M[pos].end > pos THEN M[pos].end ELSE pos + 1)
         ELSE FindIter(M, pos + 1)

\* re.search: the first match, NoMatch when there is none
Search(M) == LET all == FindIter(M, 1) IN IF all = <<>> THEN NoMatch ELSE all[1]

\* content[:match.start()].count('\n') + 1
LineOf(s, start) == Count(SubSeq(s, 1, start - 1), "NL") + 1

(***************************************************************************)
(* GDScriptParser patterns                                                 *)
(***************************************************************************)
\* var\s+(\w+)(?:\s*:\s*(\w+))?(?:\s*=\s*(.+?))?(?:\s*#|$), k at the token var
VarBody(s, k) ==
    LET n  == SkipSpace(s, k + 1)
        p0 == n + 1
        c  == SkipSpace(s, p0)
        t  == SkipSpace(s, c + 1)
        hasType == Tok(s, c) = "COLON" /\ IsWord(Tok(s, t))
        p1 == t + 1
        DefaultOK(p) == /\ Tok(s, SkipSpace(s, p)) = "EQ"
                        /\ SkipSpace(s, SkipSpace(s, p) + 1) <= Len(s)
        DefaultStart(p) == SkipSpace(s, SkipSpace(s, p) + 1)
        WithDefault(ty, p) ==
            LET q == DefaultStart(p)
                e == LazyValueEnd(s, q)
            IN  [ok |-> TRUE, name |-> s[n], type |-> ty,
                 default |-> SubSeq(s, q, e), end |-> TailEnd(s, e + 1)]
        NoDefault(ty, p) ==
            [ok |-> TRUE, name |-> s[n], type |-> ty, default |-> NoText,
             end |-> TailEnd(s, p)]
    IN  IF ~(Tok(s, k) = "var" /\ IsSpace(Tok(s, k + 1)) /\ IsWord(Tok(s, n)))
        THEN NoMatch
        ELSE IF hasType /\ DefaultOK(p1) THEN WithDefault(s[t], p1)
        ELSE IF hasType /\ TailOK(s, p1) THEN NoDefault(s[t], p1)
        ELSE IF DefaultOK(p0) THEN WithDefault(None, p0)
        ELSE IF TailOK(s, p0) THEN NoDefault(None, p0)
        ELSE NoMatch

\* group 1 of EXPORT_PATTERN: the hint name after "@export_"
Hint(t) == IF t = "@export_range" THEN "range" ELSE None

\* EXPORT_PATTERN at offset i
ExportMatch(s, i) ==
    LET r == FindOnLine(s, i + 2, "RP")
        hasArgs == Hint(Tok(s, i)) # None /\ Tok(s, i + 1) = "LP" /\ r # 0
        k == SkipSpace(s, IF hasArgs THEN r + 1 ELSE i + 1)
        body == VarBody(s, k)
    IN  IF AtLineStart(s, i) /\ Tok(s, i) \in ExportTokens /\ body.ok
        THEN [ok |-> TRUE, start |-> i, end |-> body.end, hint |-> Hint(s[i]),
              name |-> body.name, type |-> body.type, default |-> body.default]
        ELSE NoMatch

\* VAR_PATTERN at offset i
VarMatch(s, i) ==
    LET body == VarBody(s, i)
    IN  IF AtLineStart(s, i) /\ body.ok
        THEN [ok |-> TRUE, start |-> i, end |-> body.end, name |-> body.name,
              type |-> body.type, default |-> body.default]
        ELSE NoMatch

\* SIGNAL_PATTERN at offset i
SignalMatch(s, i) ==
    LET n == SkipSpace(s, i + 1)
        r == FindOnLine(s, n + 2, "RP")
        hasParams == Tok(s, n + 1) = "LP" /\ r # 0
    IN  IF /\ AtLineStart(s, i) /\ Tok(s, i) = "signal"
           /\ IsSpace(Tok(s, i + 1)) /\ IsWord(Tok(s, n))
        THEN [ok |-> TRUE, start |-> i, end |-> IF hasParams THEN r + 1 ELSE n + 1,
              name |-> s[n],
              params |-> IF hasParams THEN SubSeq(s, n + 2, r - 1) ELSE NoText]
        ELSE NoMatch

\* FUNC_PATTERN at offset i
FuncMatch(s, i) ==
    LET static == /\ Tok(s, i) = "static" /\ IsSpace(Tok(s, i + 1))
                  /\ Tok(s, SkipSpace(s, i + 1)) = "func"
        f == IF static THEN SkipSpace(s, i + 1) ELSE i
        n == SkipSpace(s, f + 1)
        l == SkipSpace(s, n + 1)
        r == FindOnLine(s, l + 1, "RP")
        a == SkipSpace(s, r + 1)
        t == SkipSpace(s, a + 1)
        hasRet == Tok(s, a) = "ARROW" /\ IsWord(Tok(s, t))
    IN  IF /\ AtLineStart(s, i) /\ Tok(s, f) = "func" /\ IsSpace(Tok(s, f + 1))
           /\ IsWord(Tok(s, n)) /\ Tok(s, l) = "LP" /\ r # 0
        THEN [ok |-> TRUE, start |-> i, end |-> IF hasRet THEN t + 1 ELSE r + 1,
              static |-> static, name |-> s[n], params |-> SubSeq(s, l + 1, r - 1),
              return_type |-> IF hasRet THEN s[t] ELSE None]
        ELSE NoMatch

\* PRELOAD_PATTERN (w = "preload") and LOAD_PATTERN (w = "load": a token "load"
\* is not preceded by "pre", the token "preload" is) at offset i; the text
\* between the quotes is one token
LoadMatch(s, i, w) ==
    LET l == SkipSpace(s, i + 1)
        q == SkipSpace(s, l + 1)
        c == SkipSpace(s, q + 3)
    IN  IF /\ Tok(s, i) = w /\ Tok(s, l) = "LP" /\ Tok(s, q) = "Q"
           /\ Tok(s, q + 1) \in PathTokens /\ Tok(s, q + 2) = "Q" /\ Tok(s, c) = "RP"
        THEN [ok |-> TRUE, start |-> i, end |-> c + 1, path |-> s[q + 1]]
        ELSE NoMatch

\* CLASS_NAME_PATTERN at offset i
ClassNameMatch(s, i) ==
    LET n == SkipSpace(s, i + 1)
    IN  IF /\ AtLineStart(s, i) /\ Tok(s, i) = "class_name"
           /\ IsSpace(Tok(s, i + 1)) /\ IsWord(Tok(s, n))
        THEN [ok |-> TRUE, start |-> i, end |-> n + 1, name |-> s[n]]
        ELSE NoMatch

\* EXTENDS_PATTERN at offset i
ExtendsMatch(s, i) ==
    LET n == SkipSpace(s, i + 1)
    IN  IF /\ AtLineStart(s, i) /\ Tok(s, i) = "extends" /\ IsSpace(Tok(s, i + 1))
           /\ n <= Len(s) /\ Tok(s, n) # "HASH"
        THEN [ok |-> TRUE, start |-> i, end |-> n + 1, name |-> s[n]]
        ELSE NoMatch

\* TOOL_PATTERN at offset i
ToolMatch(s, i) ==
    IF AtLineStart(s, i) /\ Tok(s, i) = "@tool"
    THEN [ok |-> TRUE, start |-> i, end |-> i + 1]
    ELSE NoMatch

(***************************************************************************)
(* GDScriptParser._parse_params                                            *)
(***************************************************************************)
\* params_str.split(',')
RECURSIVE SplitComma(_)
SplitComma(ts) ==
    IF \A i \in 1..Len(ts) : ts[i] # "COMMA" THEN <<ts>>
    ELSE LET k == CHOOSE i \in 1..Len(ts) :
                      ts[i] = "COMMA" /\ \A j \in 1..(i - 1) : ts[j] # "COMMA"
         IN  <<SubSeq(ts, 1, k - 1)>> \o SplitComma(SubSeq(ts, k + 1, Len(ts)))

\* p.strip()
RECURSIVE Strip(_)
Strip(ts) ==
    IF ts = <<>> THEN <<>>
    ELSE IF IsSpace(ts[1]) THEN Strip(Tail(ts))
    ELSE IF IsSpace(ts[Len(ts)]) THEN Strip(SubSeq(ts, 1, Len(ts) - 1))
    ELSE ts

_parse_params(params_str) ==
    IF params_str = NoText \/ Strip(params_str) = <<>> THEN <<>>
    ELSE LET parts == SplitComma(params_str)
             keep  == SelectSeq(parts, LAMBDA p : Strip(p) # <<>>)
         IN  [i \in 1..Len(keep) |-> Strip(keep[i])]

(***************************************************************************)
(* GDScriptParser.parse_content                                            *)
(***************************************************************************)
Matches(s, Pat(_, _)) == FindIter([i \in 1..Len(s) |-> Pat(s, i)], 1)

GDSignal(s, m) ==
    [name |-> m.name,
     parameters |-> IF m.params # NoText THEN _parse_params(m.params) ELSE <<>>,
     line |-> LineOf(s, m.start)]

GDFunction(s, m) ==
    [name |-> m.name, is_static |-> m.static,
     parameters |-> _parse_params(m.params),
     return_type |-> m.return_type, line |-> LineOf(s, m.start)]

GDExport(s, m) ==
    [name |-> m.name, type |-> IF m.type # None THEN m.type ELSE "Variant",
     hint |-> m.hint, default |-> m.default, line |-> LineOf(s, m.start)]

GDVariable(s, m) ==
    [name |-> m.name, type |-> m.type, default |-> m.default,
     line |-> LineOf(s, m.start)]

\* content.rfind('\n', 0, start) + 1, as a 1-based offset
RECURSIVE LineStart(_, _)
LineStart(s, start) ==
    IF start = 1 \/ s[start - 1] = "NL" THEN start ELSE LineStart(s, start - 1)

\* '@export' in content[line_start:match.start()]
HasExportBefore(s, start) ==
    \E j \in LineStart(s, start)..(start - 1) : s[j] \in ExportTokens

GDScriptParser_parse_content(content, path) ==
    LET sigs  == Matches(content, SignalMatch)
        funcs == Matches(content, FuncMatch)
        exps  == Matches(content, ExportMatch)
        plain == SelectSeq(Matches(content, VarMatch),
                           LAMBDA m : ~HasExportBefore(content, m.start))
        pre   == Matches(content, LAMBDA s, i : LoadMatch(s, i, "preload"))
        lds   == Matches(content, LAMBDA s, i : LoadMatch(s, i, "load"))
        cn    == Search([i \in 1..Len(content) |-> ClassNameMatch(content, i)])
        ex    == Search([i \in 1..Len(content) |-> ExtendsMatch(content, i)])
    IN  [name      |-> IF cn.ok THEN cn.name ELSE None,
         extends   |-> IF ex.ok THEN ex.name ELSE None,
         path      |-> path,
         is_tool   |-> Search([i \in 1..Len(content) |-> ToolMatch(content, i)]).ok,
         signals   |-> [j \in 1..Len(sigs) |-> GDSignal(content, sigs[j])],
         functions |-> [j \in 1..Len(funcs) |-> GDFunction(content, funcs[j])],
         exports   |-> [j \in 1..Len(exps) |-> GDExport(content, exps[j])],
         variables |-> [j \in 1..Len(plain) |-> GDVariable(content, plain[j])],
         preloads  |-> [j \in 1..Len(pre) |-> pre[j].path]
                       \o [j \in 1..Len(lds) |-> lds[j].path]]

(***************************************************************************)
(* Scene text                                                              *)
(*                                                                         *)
(* A scene text is the sequence of its sections, as re.split cuts it in    *)
(* front of every line that opens with "[".  A section is the header line, *)
(* given by its tag and by the groups its pattern captures, and the lines  *)
(* below it (token sequences).  A header that none of the patterns matches *)
(* has the tag "other".                                                    *)
(***************************************************************************)
\* a [node ...] stanza; index is an attribute NODE_PATTERN has no place for
Node(name, type, parent, instance, groups, lines) ==
    [tag |-> "node", name |-> name, type |-> type, parent |-> parent,
     instance |-> instance, groups |-> groups, index |-> None, lines |-> lines]

ExtResource(type, path, id) ==
    [tag |-> "ext_resource", type |-> type, uid |-> None, path |-> path,
     id |-> id, lines |-> <<>>]

\* mesh = 100 / a continuation line / a blank line / size = 10
BoxLines == << <<"mesh", "SP", "EQ", "SP", "100">>, <<"SP", "10">>, <<>>,
               <<"size", "EQ", "10">> >>

HeaderStanza == [tag |-> "gd_scene", format |-> 4, lines |-> <<>>]
ExtHudStanza == ExtResource("PackedScene", "res://hud.tscn", "1")
ExtGameStanza == ExtResource("Script", "res://game.gd", "2")
SubStanza == [tag |-> "sub_resource", type |-> "BoxMesh", id |-> "1",
              lines |-> << <<"10">>, <<"size", "SP", "EQ", "SP", "100">> >>]
MainStanza == Node("Main", "Node3D", None, None, <<>>, <<>>)
OtherRootStanza == Node("Other", "Node2D", None, None, <<>>, <<>>)
AStanza == Node("A", "Node3D", ".", None, <<"enemies">>, <<>>)
BoxStanza == Node("Box", "MeshInstance3D", ".", None, <<>>, BoxLines)
BUnderAStanza == Node("B", None, "A", "1", <<>>, <<>>)
DotStanza == Node(".", "Node", ".", None, <<>>, <<>>)
DanglingStanza == Node("C", "Node", "Missing", None, <<>>, <<>>)
UnderDanglingStanza == Node("F", "Node", "Missing/C", None, <<>>, <<>>)
Instance9Stanza == Node("D", None, ".", "9", <<>>, <<>>)
\* [node name="E" type="Node" parent="." index="0"]
IndexedStanza == [Node("E", "Node", ".", None, <<>>, <<>>) EXCEPT !.index = "0"]
ConnectionStanza ==
    [tag |-> "connection", signal |-> "died", from |-> "A", to |-> ".",
     method |-> "_on_died", flags |-> None, lines |-> <<>>]
OtherStanza == [tag |-> "other", lines |-> <<>>]

Stanzas == {HeaderStanza, ExtHudStanza, ExtGameStanza, SubStanza, MainStanza,
            OtherRootStanza, AStanza, BoxStanza, BUnderAStanza, DotStanza,
            DanglingStanza, UnderDanglingStanza, Instance9Stanza, IndexedStanza,
            ConnectionStanza, OtherStanza}

SceneTexts == SeqsUpTo(Stanzas, MaxStanzas)

(***************************************************************************)
(* TscnParser._parse_properties                                            *)
(***************************************************************************)
\* PROPERTY_PATTERN.match(line), line stripped
PropertyMatch(line) ==
    LET e == SkipSpace(line, 2)
        v == SkipSpace(line, e + 1)
    IN  IF IsWord(Tok(line, 1)) /\ Tok(line, e) = "EQ" /\ v <= Len(line)
        THEN [ok |-> TRUE, key |-> line[1], value |-> SubSeq(line, v, Len(line))]
        ELSE NoMatch

\* properties[key] = value
Put(d, key, value) == [k \in DOMAIN d \cup {key} |-> IF k = key THEN value ELSE d[k]]

RECURSIVE PropertyLoop(_, _, _, _)
PropertyLoop(lines, properties, current_key, current_value) ==
    IF lines = <<>>
    THEN IF current_key # None
         THEN Put(properties, current_key, JoinLines(current_value))
         ELSE properties
    ELSE LET line == Strip(Head(lines))
             m == PropertyMatch(line)
         IN  IF line = <<>>
             THEN PropertyLoop(Tail(lines), properties, current_key, current_value)
             ELSE IF m.ok
             THEN PropertyLoop(Tail(lines),
                               IF current_key # None
                               THEN Put(properties, current_key, JoinLines(current_value))
                               ELSE properties,
                               m.key, <<m.value>>)
             ELSE IF current_key # None
             THEN PropertyLoop(Tail(lines), properties, current_key,
                               Append(current_value, line))
             ELSE PropertyLoop(Tail(lines), properties, current_key, current_value)

_parse_properties(lines) == PropertyLoop(lines, <<>>, None, <<>>)

(***************************************************************************)
(* TscnParser.parse_content                                                *)
(*                                                                         *)
(* A node object is identified by its position in scene.nodes; children    *)
(* lists, root_node and node_map hold such positions (0 for None).         *)
(***************************************************************************)
TscnNode(h) ==
    [name |-> h.name, type |-> h.type, parent |-> h.parent,
     instance |-> h.instance, properties |-> _parse_properties(h.lines),
     groups |-> h.groups, children |-> <<>>]

TscnResource(h) ==
    [id |-> h.id, type |-> h.type,
     path |-> IF h.tag = "ext_resource" THEN h.path ELSE None,
     properties |-> IF h.tag = "sub_resource" THEN _parse_properties(h.lines)
                    ELSE IF h.uid # None THEN [uid |-> h.uid] ELSE <<>>]

TscnConnection(h) ==
    [signal |-> h.signal, from_node |-> h.from, to_node |-> h.to,
     method |-> h.method, flags |-> IF h.flags # None THEN h.flags ELSE 0]

\* a node path that forgets the parent path
NodePath_flat(parent_path, name) == name

\* f"{parent_path}/{node.name}", or node.name below the root sentinel
NodePath(parent_path, name) ==
    IF parent_path = "." THEN name ELSE parent_path \o "/" \o name

\* node_map[parent_path].children.append(node)
AppendChild(nodes, parent, child) ==
    [nodes EXCEPT ![parent].children = Append(@, child)]

\* a pass that stores a node under its path before it looks its parent up
SectionStep_stored_first(st, h) ==
    IF h.tag = "sub_resource"
    THEN [st EXCEPT !.sub_resources = Append(@, TscnResource(h))]
    ELSE IF h.tag = "node" /\ h.index = None
    THEN LET node == Len(st.nodes) + 1
             added == Append(st.nodes, TscnNode(h))
         IN  IF h.parent = None
             THEN [st EXCEPT !.nodes = added, !.root_node = node,
                             !.node_map = Put(@, ".", node)]
             ELSE LET stored == Put(st.node_map, NodePath(h.parent, h.name), node)
                  IN  [st EXCEPT
                         !.nodes = IF h.parent \in DOMAIN stored
                                   THEN AppendChild(added, stored[h.parent], node)
                                   ELSE added,
                         !.node_map = stored]
    ELSE IF h.tag = "connection"
    THEN [st EXCEPT !.connections = Append(@, TscnConnection(h))]
    ELSE st

\* a pass that keeps a node only when its parent path is registered
SectionStep_strict(st, h) ==
    IF h.tag = "sub_resource"
    THEN [st EXCEPT !.sub_resources = Append(@, TscnResource(h))]
    ELSE IF h.tag = "node" /\ h.index = None
    THEN LET node == Len(st.nodes) + 1
             added == Append(st.nodes, TscnNode(h))
         IN  IF h.parent = None
             THEN [st EXCEPT !.nodes = added, !.root_node = node,
                             !.node_map = Put(@, ".", node)]
             ELSE IF h.parent \in DOMAIN st.node_map
             THEN [st EXCEPT
                     !.nodes = AppendChild(added, st.node_map[h.parent], node),
                     !.node_map = Put(@, NodePath(h.parent, h.name), node)]
             ELSE st
    ELSE IF h.tag = "connection"
    THEN [st EXCEPT !.connections = Append(@, TscnConnection(h))]
    ELSE st

\* one pass of the loop over the sections; st holds scene and node_map
SectionStep(st, h) ==
    IF h.tag = "sub_resource"
    THEN [st EXCEPT !.sub_resources = Append(@, TscnResource(h))]
    ELSE IF h.tag = "node" /\ h.index = None
    THEN LET node == Len(st.nodes) + 1
             added == Append(st.nodes, TscnNode(h))
         IN  IF h.parent = None
             THEN [st EXCEPT !.nodes = added, !.root_node = node,
                             !.node_map = Put(@, ".", node)]
             ELSE [st EXCEPT
                     !.nodes = IF h.parent \in DOMAIN st.node_map
                               THEN AppendChild(added, st.node_map[h.parent], node)
                               ELSE added,
                     !.node_map = Put(@, NodePath(h.parent, h.name), node)]
    ELSE IF h.tag = "connection"
    THEN [st EXCEPT !.connections = Append(@, TscnConnection(h))]
    ELSE st

RECURSIVE SectionLoop(_, _)
SectionLoop(st, sections) ==
    IF sections = <<>> THEN st
    ELSE SectionLoop(SectionStep(st, Head(sections)), Tail(sections))

TscnParser_parse_content(content, path) ==
    LET headers == SelectSeq(content, LAMBDA h : h.tag = "gd_scene")
        exts    == SelectSeq(content, LAMBDA h : h.tag = "ext_resource")
        st == SectionLoop([sub_resources |-> <<>>, nodes |-> <<>>,
                           connections |-> <<>>, root_node |-> 0,
                           node_map |-> <<>>], content)
    IN  [path           |-> path,
         format_version |-> IF headers # <<>> THEN headers[1].format ELSE 3,
         uid            |-> None,
         ext_resources  |-> [i \in 1..Len(exts) |-> TscnResource(exts[i])],
         sub_resources  |-> st.sub_resources,
         nodes          |-> st.nodes,
         connections    |-> st.connections,
         root_node      |-> st.root_node]

(***************************************************************************)
(* The project tree                                                        *)
(***************************************************************************)
ScriptPaths == {"game.gd", "player.gd"}
ScenePaths == {"main.tscn", "hud.tscn"}
ConfigPath == "project.godot"
Paths == ScriptPaths \cup ScenePaths \cup {ConfigPath}

\* a path that names no file, a file whose read fails (permissions, encoding,
\* a directory with a matching name), a file with its text
Absent == [kind |-> "absent"]
Unreadable == [kind |-> "unreadable"]
File(content) == [kind |-> "file", content |-> content]

GameText == JoinLines(<<VarLine, FuncLine>>)
PlayerText == JoinLines(<<PreloadLine, LoadLine, ExportVarLine>>)
PlayerEditedText == JoinLines(<<SignalLine>>)

MainText == <<HeaderStanza, ExtHudStanza, ExtGameStanza, MainStanza, AStanza,
              BUnderAStanza, Instance9Stanza, ConnectionStanza>>
MainEditedText == <<HeaderStanza, MainStanza, BoxStanza>>
HudText == <<HeaderStanza, OtherRootStanza, IndexedStanza>>
\* a script that loads itself, and a hud.tscn that instances main.tscn, which
\* instances hud.tscn
SelfText == JoinLines(<<LoadLine>>)
HudCyclicText == <<HeaderStanza, ExtResource("PackedScene", "res://main.tscn", "1"),
                   OtherRootStanza, Node("D", None, ".", "1", <<>>, <<>>)>>

\* project.godot, line by line: a section header, the key config/name, an
\* entry name="*res://path" or name="res://path", an entry name=<anything else>
Section(name) == [kind |-> "section", name |-> name]
ConfigName(text) == [kind |-> "name", text |-> text]
ResEntry(name, star, path) == [kind |-> "res", name |-> name, star |-> star, path |-> path]
PlainEntry(name) == [kind |-> "plain", name |-> name]

DemoConfig == <<Section("application"), ConfigName("Demo"), Section("autoload"),
                ResEntry("Game", TRUE, "game.gd"), ResEntry("HUD", FALSE, "hud.tscn"),
                Section("input"), PlainEntry("jump")>>
BareConfig == <<Section("application"), PlainEntry("run")>>
ScenarioConfig == <<Section("application"), ConfigName("Demo"), Section("autoload"),
                    ResEntry("Game", TRUE, "game.gd")>>

\* what is saved or deleted between two calls: a script, a scene and the
\* configuration file, each with the contents it can have
Editable == {"player.gd", "main.tscn", ConfigPath}
FileStates(p) ==
    IF p = "player.gd" THEN {Absent, File(PlayerText), File(PlayerEditedText)}
    ELSE IF p = "main.tscn" THEN {Absent, File(MainText), File(MainEditedText)}
    ELSE {Absent, File(DemoConfig), File(BareConfig)}

Disk(game, player, main, hud, config) ==
    [p \in Paths |-> IF p = "game.gd" THEN game
                     ELSE IF p = "player.gd" THEN player
                     ELSE IF p = "main.tscn" THEN main
                     ELSE IF p = "hud.tscn" THEN hud
                     ELSE config]

\* the project trees an analyzer is created on: the whole demo project, an
\* empty directory, the demo with two files that cannot be read, the demo
\* without the files that refer to game.gd and hud.tscn, and a project of one
\* autoload and one scene of two nodes
DemoDisk == Disk(File(GameText), File(PlayerText), File(MainText), File(HudText),
                 File(DemoConfig))
EmptyDisk == Disk(Absent, Absent, Absent, Absent, Absent)
BrokenDisk == Disk(Unreadable, File(PlayerText), File(MainText), Unreadable,
                   File(DemoConfig))
LooseDisk == Disk(File(GameText), Absent, File(MainEditedText), File(HudText),
                  File(DemoConfig))
ScenarioDisk == Disk(File(GameText), Absent, File(MainEditedText), Absent,
                     File(ScenarioConfig))
CyclicDisk == Disk(File(SelfText), Absent, File(MainText), File(HudCyclicText), Absent)
Disks == {DemoDisk, EmptyDisk, BrokenDisk, LooseDisk, ScenarioDisk, CyclicDisk}

\* GDScriptParser.parse_file / TscnParser.parse_file on a readable file: the
\* text is read and handed to parse_content with the path.  The parse of each
\* text a file can hold is tabulated once; parse_content only copies the path
\* into its result.
ParsedScriptTexts ==
    [c \in {GameText, PlayerText, PlayerEditedText, SelfText} |->
        GDScriptParser_parse_content(c, "")]
ParsedSceneTexts ==
    [c \in {MainText, MainEditedText, HudText, HudCyclicText} |->
        TscnParser_parse_content(c, "")]
GDScriptParser_parse_file(d, path) ==
    [ParsedScriptTexts[d[path].content] EXCEPT !.path = path]
TscnParser_parse_file(d, path) ==
    [ParsedSceneTexts[d[path].content] EXCEPT !.path = path]

\* Path.exists()
Exists(d, p) == p \in DOMAIN d /\ d[p].kind # "absent"

\* f"res://{path}"
Res(path) == "res://" \o path

(***************************************************************************)
(* Python dict: insertion-ordered, a sequence of [key, value] with         *)
(* distinct keys                                                           *)
(***************************************************************************)
Keys(d) == {d[i].key : i \in 1..Len(d)}
\* the value cached under the key k
Cached(cache, k) == cache[CHOOSE i \in 1..Len(cache) : cache[i].key = k].value
Set(d, k, v) ==
    IF k \in Keys(d)
    THEN [i \in 1..Len(d) |-> IF d[i].key = k THEN [key |-> k, value |-> v] ELSE d[i]]
    ELSE Append(d, [key |-> k, value |-> v])

\* the orders in which Path.rglob can yield the files of S
Orders(S) == {o \in SeqsUpTo(S, Cardinality(S)) : Len(o) = Cardinality(S) /\ Range(o) = S}

(***************************************************************************)
(* ProjectAnalyzer.get_project_info                                        *)
(***************************************************************************)
\* _extract_config_value(content, 'config/name')
_extract_config_value(content) ==
    LET names == SelectSeq(content, LAMBDA l : l.kind = "name")
    IN  IF names # <<>> THEN names[1].text ELSE None

\* the lines that re.search(r'\[name\](.*?)(?=\[|\Z)') captures: those below
\* the first header [name], up to the next header
RECURSIVE UpToHeader(_)
UpToHeader(ls) ==
    IF ls = <<>> \/ Head(ls).kind = "section" THEN <<>>
    ELSE <<Head(ls)>> \o UpToHeader(Tail(ls))

RECURSIVE SectionBody(_, _)
SectionBody(content, name) ==
    IF content = <<>> THEN <<>>
    ELSE IF Head(content) = Section(name) THEN UpToHeader(Tail(content))
    ELSE SectionBody(Tail(content), name)

ParseProjectInfo(content) ==
    LET al  == SelectSeq(SectionBody(content, "autoload"), LAMBDA l : l.kind = "res")
        inp == SelectSeq(SectionBody(content, "input"),
                         LAMBDA l : l.kind \in {"res", "plain"})
        nm  == _extract_config_value(content)
    IN  [path |-> ".",
         name |-> IF nm # None THEN nm ELSE "Unknown",
         autoloads |-> [i \in 1..Len(al) |-> [name |-> al[i].name, path |-> Res(al[i].path)]],
         input_actions |-> [i \in 1..Len(inp) |-> inp[i].name]]

\* what a call returns and the state it leaves: ret is the returned value,
\* raised tells that an exception left the method instead
Returned(v) == [raised |-> FALSE, ret |-> v]
Raised == [raised |-> TRUE]

Error(msg, path) == [error |-> msg, about |-> path]

\* a get_project_info that reads the configuration file without looking
\* whether it exists
get_project_info_unguarded(d, info) ==
    IF info # NoObject THEN [info |-> info, out |-> Returned(info)]
    ELSE IF ~Exists(d, ConfigPath) \/ d[ConfigPath].kind = "unreadable"
    THEN [info |-> info, out |-> Raised]
    ELSE LET new == ParseProjectInfo(d[ConfigPath].content)
         IN  [info |-> new, out |-> Returned(new)]

\* a get_project_info that reads the file on every call
get_project_info_reread(d, info) ==
    IF ~Exists(d, ConfigPath)
    THEN [info |-> info, out |-> Returned(Error("No project.godot found", ConfigPath))]
    ELSE IF d[ConfigPath].kind = "unreadable" THEN [info |-> info, out |-> Raised]
    ELSE LET new == ParseProjectInfo(d[ConfigPath].content)
         IN  [info |-> new, out |-> Returned(new)]

\* returns [info, out]: the new _project_info and the outcome of the call
get_project_info(d, info) ==
    IF info # NoObject THEN [info |-> info, out |-> Returned(info)]
    ELSE IF ~Exists(d, ConfigPath)
    THEN [info |-> info, out |-> Returned(Error("No project.godot found", ConfigPath))]
    ELSE IF d[ConfigPath].kind = "unreadable" THEN [info |-> info, out |-> Raised]
    ELSE LET new == ParseProjectInfo(d[ConfigPath].content)
         IN  [info |-> new, out |-> Returned(new)]

(***************************************************************************)
(* ProjectAnalyzer.scan_all_scripts / scan_all_scenes                      *)
(***************************************************************************)
ScriptSummary(path, gd) ==
    [path |-> path, class_name |-> gd.name, extends |-> gd.extends,
     is_tool |-> gd.is_tool, function_count |-> Len(gd.functions),
     signal_count |-> Len(gd.signals), export_count |-> Len(gd.exports)]

SceneSummary(path, sc) ==
    [path |-> path,
     root_type |-> IF sc.root_node # 0 THEN sc.nodes[sc.root_node].type ELSE None,
     node_count |-> Len(sc.nodes), connection_count |-> Len(sc.connections),
     external_resources |-> Len(sc.ext_resources)]

ParseError(path) == [path |-> path, error |-> "read failed"]

\* a scan that leaves the parse it has cached for a path as it is
ScannedScript_keep(st, path, gd) ==
    [cache |-> IF path \in Keys(st.cache) THEN st.cache ELSE Set(st.cache, path, gd),
     out |-> Append(st.out, ScriptSummary(path, gd))]

\* the try branch of the loop body for a file that parsed to gd; st holds the
\* cache and the list the scan returns
ScannedScript(st, path, gd) ==
    [cache |-> Set(st.cache, path, gd),
     out |-> Append(st.out, ScriptSummary(path, gd))]

ScannedScene(st, path, sc) ==
    [cache |-> Set(st.cache, path, sc),
     out |-> Append(st.out, SceneSummary(path, sc))]

\* the except branch
FailedFile(st, path) == [st EXCEPT !.out = Append(@, ParseError(path))]

\* a for loop without the try: the first file that fails ends the walk
RECURSIVE ScanScriptsLoop_abort(_, _, _)
ScanScriptsLoop_abort(d, files, st) ==
    IF files = <<>> THEN st
    ELSE IF d[Head(files)].kind = "file"
    THEN ScanScriptsLoop_abort(d, Tail(files),
             ScannedScript(st, Head(files), GDScriptParser_parse_file(d, Head(files))))
    ELSE FailedFile(st, Head(files))

\* the for loop, once per file of the walk, in walk order
RECURSIVE ScanScriptsLoop(_, _, _)
ScanScriptsLoop(d, files, st) ==
    IF files = <<>> THEN st
    ELSE ScanScriptsLoop(d, Tail(files),
             IF d[Head(files)].kind = "file"
             THEN ScannedScript(st, Head(files),
                                GDScriptParser_parse_file(d, Head(files)))
             ELSE FailedFile(st, Head(files)))

RECURSIVE ScanScenesLoop(_, _, _)
ScanScenesLoop(d, files, st) ==
    IF files = <<>> THEN st
    ELSE ScanScenesLoop(d, Tail(files),
             IF d[Head(files)].kind = "file"
             THEN ScannedScene(st, Head(files), TscnParser_parse_file(d, Head(files)))
             ELSE FailedFile(st, Head(files)))

\* the files project_path.rglob(pattern) finds
Found(d, S) == {p \in S : Exists(d, p)}

\* returns [cache, out]: the cache after the scan and the returned list
scan_all_scripts(d, order, cache) ==
    ScanScriptsLoop(d, order, [cache |-> cache, out |-> <<>>])
scan_all_scenes(d, order, cache) ==
    ScanScenesLoop(d, order, [cache |-> cache, out |-> <<>>])

(***************************************************************************)
(* Cache-backed queries                                                    *)
(***************************************************************************)
\* term.lower() in text.lower(), for the search terms and the names in use
LowerContains ==
    ({"node"} \X {"Node3D", "Node2D", "Node"})
        \cup ({"mesh"} \X {"MeshInstance3D"})
        \cup ({"die"} \X {"died"})
        \cup ({"h"} \X {"health", "hit"})
ContainsCI(term, text) == <<term, text>> \in LowerContains

find_nodes_by_type(scenes, node_type) ==
    Flatten([i \in 1..Len(scenes) |->
        LET hits == SelectSeq(scenes[i].value.nodes,
                              LAMBDA n : n.type # None /\ ContainsCI(node_type, n.type))
        IN  [j \in 1..Len(hits) |->
                [scene |-> scenes[i].key, node_name |-> hits[j].name,
                 node_type |-> hits[j].type, parent |-> hits[j].parent,
                 groups |-> hits[j].groups]]])

find_nodes_by_group(scenes, group_name) ==
    Flatten([i \in 1..Len(scenes) |->
        LET hits == SelectSeq(scenes[i].value.nodes,
                              LAMBDA n : group_name \in Range(n.groups))
        IN  [j \in 1..Len(hits) |->
                [scene |-> scenes[i].key, node_name |-> hits[j].name,
                 node_type |-> hits[j].type, groups |-> hits[j].groups]]])

\* the matches of one kind of symbol, in declaration order
SymbolMatches(items, kind, term) ==
    LET hits == SelectSeq(items, LAMBDA x : ContainsCI(term, x.name))
    IN  [j \in 1..Len(hits) |-> [type |-> kind, name |-> hits[j].name, line |-> hits[j].line]]

find_script_usages(scripts, search_term) ==
    LET matches(gd) ==
            (IF gd.name # None /\ ContainsCI(search_term, gd.name)
             THEN <<[type |-> "class_name", name |-> gd.name]>> ELSE <<>>)
            \o SymbolMatches(gd.functions, "function", search_term)
            \o SymbolMatches(gd.signals, "signal", search_term)
            \o SymbolMatches(gd.exports, "export", search_term)
            \o SymbolMatches(gd.variables, "variable", search_term)
        hits == SelectSeq(scripts, LAMBDA e : matches(e.value) # <<>>)
    IN  [j \in 1..Len(hits) |-> [script |-> hits[j].key, matches |-> matches(hits[j].value)]]

find_signal_connections(scenes, signal_name) ==
    Flatten([i \in 1..Len(scenes) |->
        LET hits == SelectSeq(scenes[i].value.connections,
                              LAMBDA c : ContainsCI(signal_name, c.signal))
        IN  [j \in 1..Len(hits) |->
                [scene |-> scenes[i].key, signal |-> hits[j].signal,
                 from_node |-> hits[j].from_node, to_node |-> hits[j].to_node,
                 method |-> hits[j].method]]])

(***************************************************************************)
(* ProjectAnalyzer.get_dependency_graph / find_orphaned_resources          *)
(***************************************************************************)
\* what the loop over scene.ext_resources appends
ExtResourceDeps(sc) ==
    LET with == SelectSeq(sc.ext_resources, LAMBDA r : r.path # None)
    IN  [i \in 1..Len(with) |-> with[i].path]

\* a loop over scene.nodes that never looks the instance id up
InstanceDeps_none(sc) == <<>>

\* what the loop over scene.nodes appends
InstanceDeps(sc) ==
    Flatten([n \in 1..Len(sc.nodes) |->
        IF sc.nodes[n].instance # None
        THEN LET res == SelectSeq(sc.ext_resources,
                                  LAMBDA r : r.id = sc.nodes[n].instance)
             IN  [i \in 1..Len(res) |-> res[i].path]
        ELSE <<>>])

SceneDeps(sc) == ExtResourceDeps(sc) \o InstanceDeps(sc)

\* a graph construction that follows every reference one step further
get_dependency_graph_followed(scripts, scenes) ==
    LET direct(k) ==
            Flatten([i \in 1..Len(scripts) |->
                IF Res(scripts[i].key) = k THEN scripts[i].value.preloads ELSE <<>>])
            \o Flatten([i \in 1..Len(scenes) |->
                IF Res(scenes[i].key) = k THEN SceneDeps(scenes[i].value) ELSE <<>>])
        keys == {Res(scripts[i].key) : i \in {j \in 1..Len(scripts) :
                                              scripts[j].value.preloads # <<>>}}
                \cup {Res(scenes[i].key) : i \in {j \in 1..Len(scenes) :
                                              SceneDeps(scenes[j].value) # <<>>}}
    IN  [k \in keys |->
            direct(k) \o Flatten([i \in 1..Len(direct(k)) |-> direct(direct(k)[i])])]

\* dict(dependencies): a key exists once something was appended under it
get_dependency_graph(scripts, scenes) ==
    LET fromScripts(k) ==
            Flatten([i \in 1..Len(scripts) |->
                IF Res(scripts[i].key) = k THEN scripts[i].value.preloads ELSE <<>>])
        fromScenes(k) ==
            Flatten([i \in 1..Len(scenes) |->
                IF Res(scenes[i].key) = k THEN SceneDeps(scenes[i].value) ELSE <<>>])
        keys == {Res(scripts[i].key) : i \in {j \in 1..Len(scripts) :
                                              scripts[j].value.preloads # <<>>}}
                \cup {Res(scenes[i].key) : i \in {j \in 1..Len(scenes) :
                                              SceneDeps(scenes[j].value) # <<>>}}
    IN  [k \in keys |-> fromScripts(k) \o fromScenes(k)]

\* an orphan search that forgets the autoloads
find_orphaned_resources_no_autoloads(deps, scripts, scenes, info) ==
    LET all_referenced == UNION {Range(deps[k]) : k \in DOMAIN deps}
    IN  [orphaned_scripts |-> {Res(k) : k \in Keys(scripts)} \ all_referenced,
         orphaned_scenes |-> {Res(k) : k \in Keys(scenes)} \ all_referenced]

\* an orphan search that hands the not-found record of get_project_info on
find_orphaned_resources_strict(deps, scripts, scenes, info) ==
    IF "error" \in DOMAIN info THEN info
    ELSE LET all_referenced == UNION {Range(deps[k]) : k \in DOMAIN deps}
             autoloads == {info.autoloads[i].path : i \in 1..Len(info.autoloads)}
         IN  [orphaned_scripts |->
                  ({Res(k) : k \in Keys(scripts)} \ all_referenced) \ autoloads,
              orphaned_scenes |-> {Res(k) : k \in Keys(scenes)} \ all_referenced]

\* deps, the scanned caches and the outcome of get_project_info at hand
find_orphaned_resources(deps, scripts, scenes, info) ==
    LET all_referenced == UNION {Range(deps[k]) : k \in DOMAIN deps}
        all_scripts == {Res(k) : k \in Keys(scripts)}
        all_scenes == {Res(k) : k \in Keys(scenes)}
        autoloads == IF "autoloads" \in DOMAIN info
                     THEN {info.autoloads[i].path : i \in 1..Len(info.autoloads)}
                     ELSE {}
    IN  [orphaned_scripts |-> (all_scripts \ all_referenced) \ autoloads,
         orphaned_scenes |-> all_scenes \ all_referenced]

(***************************************************************************)
(* ProjectAnalyzer.analyze_script / analyze_scene                          *)
(***************************************************************************)
GDScriptParser_to_dict(gd) ==
    [name |-> gd.name, extends |-> gd.extends, path |-> gd.path,
     is_tool |-> gd.is_tool, signals |-> gd.signals, functions |-> gd.functions,
     exports |-> gd.exports, variables |-> gd.variables,
     dependencies |-> gd.preloads]

_nodes_to_list(nodes) ==
    [i \in 1..Len(nodes) |->
        LET n == nodes[i]
            node_dict == [name |-> n.name, type |-> n.type, parent |-> n.parent,
                          groups |-> n.groups, properties |-> n.properties]
        IN  IF n.instance # None
            THEN [name |-> n.name, type |-> n.type, parent |-> n.parent,
                  groups |-> n.groups, properties |-> n.properties,
                  instance |-> n.instance]
            ELSE node_dict]

\* a projection that hands the declared type on as it is
RECURSIVE _node_to_tree_plain(_, _)
_node_to_tree_plain(nodes, node) ==
    [name |-> nodes[node].name,
     type |-> nodes[node].type,
     groups |-> nodes[node].groups,
     children |-> [c \in 1..Len(nodes[node].children) |->
                      _node_to_tree_plain(nodes, nodes[node].children[c])]]

RECURSIVE _node_to_tree(_, _)
_node_to_tree(nodes, node) ==
    [name |-> nodes[node].name,
     type |-> IF nodes[node].type # None THEN nodes[node].type ELSE "(instanced)",
     groups |-> nodes[node].groups,
     children |-> [c \in 1..Len(nodes[node].children) |->
                      _node_to_tree(nodes, nodes[node].children[c])]]

get_node_tree(sc) ==
    IF sc.root_node = 0 THEN <<>> ELSE _node_to_tree(sc.nodes, sc.root_node)

TscnParser_to_dict(sc) ==
    [path |-> sc.path, format_version |-> sc.format_version,
     external_resources |-> [i \in 1..Len(sc.ext_resources) |->
         [id |-> sc.ext_resources[i].id, type |-> sc.ext_resources[i].type,
          path |-> sc.ext_resources[i].path]],
     sub_resources |-> [i \in 1..Len(sc.sub_resources) |->
         [id |-> sc.sub_resources[i].id, type |-> sc.sub_resources[i].type,
          properties |-> sc.sub_resources[i].properties]],
     nodes |-> _nodes_to_list(sc.nodes),
     connections |-> [i \in 1..Len(sc.connections) |->
         [signal |-> sc.connections[i].signal, from |-> sc.connections[i].from_node,
          to |-> sc.connections[i].to_node, method |-> sc.connections[i].method]],
     node_count |-> Len(sc.nodes)]

\* an analyze_script that answers from the script cache when it can
analyze_script_cached(d, script_path) ==
    IF ~Exists(d, script_path) THEN Returned(Error("Script not found", script_path))
    ELSE IF script_path \in Keys(_scripts)
    THEN Returned(GDScriptParser_to_dict(
             _scripts[CHOOSE i \in 1..Len(_scripts) : _scripts[i].key = script_path].value))
    ELSE IF d[script_path].kind = "unreadable" THEN Raised
    ELSE Returned(GDScriptParser_to_dict(GDScriptParser_parse_file(d, script_path)))

analyze_script(d, script_path) ==
    IF ~Exists(d, script_path) THEN Returned(Error("Script not found", script_path))
    ELSE IF d[script_path].kind = "unreadable" THEN Raised
    ELSE Returned(GDScriptParser_to_dict(GDScriptParser_parse_file(d, script_path)))

\* result = to_dict(scene); result["node_tree"] = get_node_tree(scene)
SceneDetail(sc) == Put(TscnParser_to_dict(sc), "node_tree", get_node_tree(sc))

analyze_scene(d, scene_path) ==
    IF ~Exists(d, scene_path) THEN Returned(Error("Scene not found", scene_path))
    ELSE IF d[scene_path].kind = "unreadable" THEN Raised
    ELSE Returned(SceneDetail(TscnParser_parse_file(d, scene_path)))

(***************************************************************************)
(* ProjectAnalyzer.search_in_files                                         *)
(*                                                                         *)
(* The files searched hold token text.  A pattern is a literal word; the   *)
(* table says in which tokens re.IGNORECASE finds it.                      *)
(***************************************************************************)
MaxContent == 200

SearchPaths == {"a.gd", "b.gd", "c.tres"}

\* the file names that fnmatch accepts for "*" + file_type
Matching(file_type) ==
    IF file_type \in {".gd", "gd"} THEN ScriptPaths \cup {"a.gd", "b.gd"}
    ELSE IF file_type = ".tscn" THEN ScenePaths
    ELSE IF file_type = ".tres" THEN {"c.tres"}
    ELSE {}

\* regex.search(token) for re.compile(pattern, re.IGNORECASE)
SearchContains ==
    ({"hit"} \X {"hit"}) \cup ({"x"} \X {"X", "@export", "@export_range"})

\* regex.search(line)
LineHit(pattern, line) ==
    \E i \in 1..Len(line) : <<pattern, line[i]>> \in SearchContains

\* the number of characters of a token
Width(t) ==
    IF t \in {"SP", "NL", "COLON", "EQ", "HASH", "LP", "RP", "COMMA", "Q"} THEN 1
    ELSE IF t = "ARROW" THEN 2
    ELSE Len(t)

\* text[:room]: the tokens that fit whole, and in tail the number of leading
\* characters kept of the token that the cut goes through (0 when none)
RECURSIVE Truncate(_, _)
Truncate(ts, room) ==
    IF ts = <<>> \/ room = 0 THEN [tokens |-> <<>>, tail |-> 0]
    ELSE IF Width(Head(ts)) > room THEN [tokens |-> <<>>, tail |-> room]
    ELSE LET rest == Truncate(Tail(ts), room - Width(Head(ts)))
         IN  [rest EXCEPT !.tokens = <<Head(ts)>> \o @]

\* the matches list of one file: enumerate(content.split('\n'), 1)
LineMatches(pattern, lines) ==
    LET hits == SelectSeq([i \in 1..Len(lines) |-> i],
                          LAMBDA i : LineHit(pattern, lines[i]))
    IN  [j \in 1..Len(hits) |->
            [line |-> hits[j],
             content |-> Truncate(Strip(lines[hits[j]]), MaxContent)]]

\* the try block for one file of the walk
SearchFile(d, pattern, f) ==
    IF d[f].kind # "file" THEN <<>>
    ELSE LET matches == LineMatches(pattern, SplitLines(d[f].content))
         IN  IF matches # <<>> THEN <<[file |-> f, matches |-> matches]>> ELSE <<>>

\* the file_types argument when it is a list
FileTypes(list) == [list |-> list]

\* file_types is None (NoObject) or a list; walk is the order in which rglob
\* yields the files of the tree
search_in_files(d, pattern, file_types, walk) ==
    LET types == IF file_types = NoObject THEN <<".gd", ".tscn", ".tres">>
                 ELSE file_types.list
    IN  Flatten([t \in 1..Len(types) |->
            LET files == SelectSeq(walk, LAMBDA f : f \in Matching(types[t]))
            IN  Flatten([i \in 1..Len(files) |-> SearchFile(d, pattern, files[i])])])

(***************************************************************************)
(* A ProjectAnalyzer method called on an analyzer object                   *)
(*                                                                         *)
(* an holds the fields of the object, d is the tree below its              *)
(* project_path, so and eo are the orders in which rglob yields the        *)
(* scripts and the scenes.  The value is [an, out]: the fields after the   *)
(* call and its outcome.                                                   *)
(***************************************************************************)
Analyzer(scripts, scenes, info) ==
    [_scripts |-> scripts, _scenes |-> scenes, _project_info |-> info]

\* ProjectAnalyzer.__init__
NewAnalyzer == Analyzer(<<>>, <<>>, NoObject)

\* if not self._scripts: self.scan_all_scripts()
EnsureScripts(d, order, cache) ==
    IF cache = <<>> THEN scan_all_scripts(d, order, cache).cache ELSE cache

\* if not self._scenes: self.scan_all_scenes()
EnsureScenes(d, order, cache) ==
    IF cache = <<>> THEN scan_all_scenes(d, order, cache).cache ELSE cache

Outcome(an, out) == [an |-> an, out |-> out]

\* r is what scan_all_scripts / scan_all_scenes / get_project_info gave
ScriptsScanned(an, r) == Outcome([an EXCEPT !._scripts = r.cache], Returned(r.out))
ScenesScanned(an, r) == Outcome([an EXCEPT !._scenes = r.cache], Returned(r.out))
InfoRead(an, r) == Outcome([an EXCEPT !._project_info = r.info], r.out)

\* the queries over the scene cache, scenes being the cache after the lazy scan
SceneQuery(an, scenes, method, arg) ==
    Outcome([an EXCEPT !._scenes = scenes],
            Returned(IF method = "find_nodes_by_type" THEN find_nodes_by_type(scenes, arg)
                     ELSE IF method = "find_nodes_by_group"
                     THEN find_nodes_by_group(scenes, arg)
                     ELSE find_signal_connections(scenes, arg)))

ScriptQuery(an, scripts, arg) ==
    Outcome([an EXCEPT !._scripts = scripts], Returned(find_script_usages(scripts, arg)))

GraphQuery(an, scripts, scenes) ==
    Outcome([an EXCEPT !._scripts = scripts, !._scenes = scenes],
            Returned(get_dependency_graph(scripts, scenes)))

OrphanQuery(an, scripts, scenes, r) ==
    Outcome([an EXCEPT !._scripts = scripts, !._scenes = scenes,
                       !._project_info = r.info],
            IF r.out.raised THEN Raised
            ELSE Returned(find_orphaned_resources(get_dependency_graph(scripts, scenes),
                                                  scripts, scenes, r.out.ret)))

Invoke(method, arg, d, an, so, eo) ==
    IF method = "get_project_info"
    THEN InfoRead(an, get_project_info(d, an._project_info))
    ELSE IF method = "scan_all_scripts"
    THEN ScriptsScanned(an, scan_all_scripts(d, so, an._scripts))
    ELSE IF method = "scan_all_scenes"
    THEN ScenesScanned(an, scan_all_scenes(d, eo, an._scenes))
    ELSE IF method = "analyze_script" THEN Outcome(an, analyze_script(d, arg))
    ELSE IF method = "analyze_scene" THEN Outcome(an, analyze_scene(d, arg))
    ELSE IF method \in {"find_nodes_by_type", "find_nodes_by_group",
                        "find_signal_connections"}
    THEN SceneQuery(an, EnsureScenes(d, eo, an._scenes), method, arg)
    ELSE IF method = "find_script_usages"
    THEN ScriptQuery(an, EnsureScripts(d, so, an._scripts), arg)
    ELSE IF method = "get_dependency_graph"
    THEN GraphQuery(an, EnsureScripts(d, so, an._scripts),
                    EnsureScenes(d, eo, an._scenes))
    ELSE IF method = "find_orphaned_resources"
    THEN OrphanQuery(an, EnsureScripts(d, so, an._scripts),
                     EnsureScenes(d, eo, an._scenes),
                     get_project_info(d, an._project_info))
    ELSE Outcome(an, Returned(search_in_files(d, arg, FileTypes(<<".gd">>), so)))

(***************************************************************************)
(* server.py: _active_project, get_analyzer, call_tool                     *)
(***************************************************************************)
\* the project_path arguments in use, and the directory each names:
\* Path(...) drops a trailing slash and reads "" as "."
ProjectArgs == {"/demo", "/demo/", "/loose", "/empty", ""}
PathOf(project_path) ==
    IF project_path = "/demo/" THEN "/demo"
    ELSE IF project_path = "" THEN "."
    ELSE project_path

\* the tree below each directory; the server runs in the directory /loose
FileSystem(root) ==
    IF root = "/demo" THEN DemoDisk
    ELSE IF root \in {"/loose", "."} THEN LooseDisk
    ELSE EmptyDisk

\* bool(s) of an Optional[str]
Truthy(s) == s # None /\ s # ""

\* get_analyzer(): the analyzer object it returns, and the fields of that
\* object (those of a new one, or the ones in _scripts, _scenes, _project_info)
\* a get_analyzer that falls back on the working directory when no project
\* is set
get_analyzer_cwd ==
    IF /\ Truthy(_active_project)
       /\ (_analyzer = NoObject \/ _analyzer.project_path # PathOf(_active_project))
    THEN [object |-> [project_path |-> PathOf(_active_project)], fields |-> NewAnalyzer]
    ELSE IF _analyzer = NoObject
    THEN [object |-> [project_path |-> "."], fields |-> NewAnalyzer]
    ELSE [object |-> _analyzer, fields |-> Analyzer(_scripts, _scenes, _project_info)]

get_analyzer ==
    IF /\ Truthy(_active_project)
       /\ (_analyzer = NoObject \/ _analyzer.project_path # PathOf(_active_project))
    THEN [object |-> [project_path |-> PathOf(_active_project)], fields |-> NewAnalyzer]
    ELSE [object |-> _analyzer, fields |-> Analyzer(_scripts, _scenes, _project_info)]

\* the analyze_* tools: the ProjectAnalyzer method each branch of call_tool
\* calls, the arguments in use, and the key the branch puts the returned
\* value under (None: the returned value is the result)
Tool(name, method, args, key) ==
    [name |-> name, method |-> method, args |-> args, key |-> key]
Tools ==
    {Tool("analyze_project_info", "get_project_info", {None}, None),
     Tool("analyze_scan_scripts", "scan_all_scripts", {None}, "scripts"),
     Tool("analyze_scan_scenes", "scan_all_scenes", {None}, "scenes"),
     Tool("analyze_script", "analyze_script", {"player.gd", "missing.gd"}, None),
     Tool("analyze_scene", "analyze_scene", {"main.tscn"}, None),
     Tool("analyze_find_nodes_by_type", "find_nodes_by_type", {"node"}, "nodes"),
     Tool("analyze_find_nodes_by_group", "find_nodes_by_group", {"enemies"}, "nodes"),
     Tool("analyze_find_script_usages", "find_script_usages", {"h"}, "usages"),
     Tool("analyze_find_signal_connections", "find_signal_connections", {"die"},
          "connections"),
     Tool("analyze_dependency_graph", "get_dependency_graph", {None}, "dependencies"),
     Tool("analyze_find_orphans", "find_orphaned_resources", {None}, None),
     Tool("analyze_search_in_files", "search_in_files", {"hit"}, "matches")}

\* the Python type of what each ProjectAnalyzer method returns
ReturnType(method) ==
    IF method \in {"scan_all_scripts", "scan_all_scenes", "find_nodes_by_type",
                   "find_nodes_by_group", "find_script_usages",
                   "find_signal_connections", "search_in_files"}
    THEN "list" ELSE "dict"

\* a call_tool that hands on what the analyzer returned
Result_bare(tool, out) ==
    IF out.raised
    THEN [type |-> "dict", returned |-> "raised", value |-> Error("exception", tool.name)]
    ELSE [type |-> ReturnType(tool.method), returned |-> ReturnType(tool.method),
          value |-> out.ret]

\* result = ... in the try block, result = {"error": str(e)} in the except:
\* the value, its Python type, and the type of what the analyzer returned
Result(tool, out) ==
    IF out.raised
    THEN [type |-> "dict", returned |-> "raised", value |-> Error("exception", tool.name)]
    ELSE IF tool.key = None
    THEN [type |-> ReturnType(tool.method), returned |-> ReturnType(tool.method),
          value |-> out.ret]
    ELSE [type |-> "dict", returned |-> ReturnType(tool.method),
          value |-> [k \in {tool.key} |-> out.ret]]

Answer(name, arg, res) == [name |-> name, arg |-> arg, result |-> res]

(***************************************************************************)
(* server.py on the event loop: call_tool is a coroutine, one per request. *)
(* A coroutine holds the loop from its start, or from the point where it   *)
(* is resumed, up to its next await or its return.                         *)
(***************************************************************************)
Callers == 1..MaxCallers

\* no coroutine exists (pc "idle") and none runs (running = 0)
LoopIdle == [running |-> 0,
             pc |-> [t \in Callers |-> "idle"],
             name |-> [t \in Callers |-> None]]

\* the branch of call_tool a tool name takes
Branch(name) ==
    IF name = "godot_set_project" THEN "set_project"
    ELSE IF name \in {tool.name : tool \in Tools} THEN "analyze"
    ELSE "live"

\* a call_tool that awaits in every branch
Suspends_everywhere(branch) == TRUE

\* the branches of call_tool that hold an await: only the live tools do
\* (result = await call_godot(endpoint, ...))
Suspends(branch) == branch = "live"

\* who holds the loop once the coroutine t has come to the middle of a branch
Holder(t, branch) == IF Suspends(branch) THEN 0 ELSE t

(***************************************************************************)
(* Specification of the script parser: one text, one parse_content call    *)
(***************************************************************************)
ScriptIdle == gd_content = <<>> /\ gd_class = NoObject
SceneIdle == tscn_content = <<>> /\ scene = NoObject
NoResult == [op |-> "none"]
NoWalks == [scripts |-> 0, scenes |-> 0, explicit |-> FALSE, replaced |-> FALSE,
            kept |-> FALSE]

\* the module-level state of the server, and its value at start
Server == <<_active_project, _analyzer, tool_result, loop>>
ServerIdle ==
    /\ _active_project = None /\ _analyzer = NoObject
    /\ tool_result = NoResult
    /\ loop = LoopIdle

AnalyzerIdle ==
    /\ disk = [p \in Paths |-> Absent]
    /\ _scripts = <<>> /\ _scenes = <<>> /\ _project_info = NoObject
    /\ result = NoResult /\ walks = NoWalks /\ edits = 0
    /\ ServerIdle

InitScript ==
    /\ gd_content \in ScriptTexts
    /\ gd_class = NoObject
    /\ SceneIdle /\ AnalyzerIdle

ParseScript ==
    /\ gd_class = NoObject
    /\ gd_class' = GDScriptParser_parse_content(gd_content, "")
    /\ UNCHANGED <<gd_content, tscn_content, scene, disk, _scripts, _scenes,
                   _project_info, result, walks, edits, Server>>

NextScript == ParseScript

SpecScript == InitScript /\ [][NextScript]_vars

(***************************************************************************)
(* Specification of the scene parser: one text, one parse_content call     *)
(***************************************************************************)
InitScene ==
    /\ tscn_content \in SceneTexts
    /\ scene = NoObject
    /\ ScriptIdle /\ AnalyzerIdle

ParseScene ==
    /\ scene = NoObject
    /\ scene' = TscnParser_parse_content(tscn_content, "")
    /\ UNCHANGED <<gd_content, gd_class, tscn_content, disk, _scripts, _scenes,
                   _project_info, result, walks, edits, Server>>

NextScene == ParseScene

SpecScene == InitScene /\ [][NextScene]_vars

(***************************************************************************)
(* Specification of the property lines: a scene of one sub_resource or     *)
(* node stanza with any lines below the header, one parse_content call     *)
(***************************************************************************)
\* mesh = 100 / size=10 / mesh = 0 / a continuation line / a blank line /
\* a line of one space / size/X = 10 / } = 10
PropertyLines == { <<"mesh", "SP", "EQ", "SP", "100">>, <<"size", "EQ", "10">>,
                   <<"mesh", "SP", "EQ", "SP", "0">>, <<"SP", "10", "COMMA">>,
                   <<>>, <<"SP">>,
                   <<"size", "SLASH", "X", "SP", "EQ", "SP", "10">>,
                   <<"RB", "SP", "EQ", "SP", "10">> }

PropertyTexts ==
    {<<[h EXCEPT !.lines = ls]>> :
        h \in {SubStanza, BoxStanza}, ls \in SeqsUpTo(PropertyLines, MaxProperties)}

InitProperties ==
    /\ tscn_content \in PropertyTexts
    /\ scene = NoObject
    /\ ScriptIdle /\ AnalyzerIdle

SpecProperties == InitProperties /\ [][NextScene]_vars

(***************************************************************************)
(* Specification of the analyzer: one ProjectAnalyzer on a project tree    *)
(* that changes between the calls.  walks.explicit tells whether           *)
(* scan_all_scripts or scan_all_scenes was called from outside, and        *)
(* walks.replaced whether the last such call changed a cached value, and   *)
(* walks.kept whether the last get_project_info call found project info    *)
(* stored that the file no longer gives.                                   *)
(***************************************************************************)
Init ==
    /\ disk \in Disks
    /\ _scripts = <<>> /\ _scenes = <<>> /\ _project_info = NoObject
    /\ result = NoResult /\ walks = NoWalks /\ edits = 0
    /\ ScriptIdle /\ SceneIdle /\ ServerIdle

Parsers == <<gd_content, gd_class, tscn_content, scene>>

Call(op, arg, out) == [op |-> op, arg |-> arg, out |-> out]

\* if not self._scripts: self.scan_all_scripts()
LazyScripts(order) == EnsureScripts(disk, order, _scripts)

\* if not self._scenes: self.scan_all_scenes()
LazyScenes(order) == EnsureScenes(disk, order, _scenes)

CountScriptWalk == [walks EXCEPT !.scripts = IF _scripts = <<>> THEN @ + 1 ELSE @]
CountSceneWalk == [walks EXCEPT !.scenes = IF _scenes = <<>> THEN @ + 1 ELSE @]
MayWalkScripts == _scripts = <<>> => walks.scripts < MaxWalks
MayWalkScenes == _scenes = <<>> => walks.scenes < MaxWalks

\* whether the stored project info is no longer what the file gives
Outdated(d, info) ==
    /\ info # NoObject
    /\ \/ ~Exists(d, ConfigPath)
       \/ d[ConfigPath].kind = "file" /\ ParseProjectInfo(d[ConfigPath].content) # info

GetProjectInfo ==
    LET r == get_project_info(disk, _project_info)
    IN  /\ _project_info' = r.info
        /\ result' = Call("get_project_info", None, r.out)
        /\ walks' = [walks EXCEPT !.kept = Outdated(disk, _project_info)]
        /\ UNCHANGED <<disk, _scripts, _scenes, edits, Parsers, Server>>

\* whether a scan put another value under a key the cache already had
Replaced(old, new) == \E k \in Keys(old) : Cached(new, k) # Cached(old, k)

ScanAllScripts ==
    /\ walks.scripts < MaxWalks
    /\ \E order \in Orders(Found(disk, ScriptPaths)) :
           \E r \in {scan_all_scripts(disk, order, _scripts)} :
               /\ _scripts' = r.cache
               /\ result' = Call("scan_all_scripts", None, Returned(r.out))
               /\ walks' = [walks EXCEPT !.scripts = @ + 1, !.explicit = TRUE,
                                         !.replaced = Replaced(_scripts, r.cache)]
    /\ UNCHANGED <<disk, _scenes, _project_info, edits, Parsers, Server>>

ScanAllScenes ==
    /\ walks.scenes < MaxWalks
    /\ \E order \in Orders(Found(disk, ScenePaths)) :
           \E r \in {scan_all_scenes(disk, order, _scenes)} :
               /\ _scenes' = r.cache
               /\ result' = Call("scan_all_scenes", None, Returned(r.out))
               /\ walks' = [walks EXCEPT !.scenes = @ + 1, !.explicit = TRUE,
                                         !.replaced = Replaced(_scenes, r.cache)]
    /\ UNCHANGED <<disk, _scripts, _project_info, edits, Parsers, Server>>

FindNodesByType ==
    /\ MayWalkScenes
    /\ \E node_type \in {"node", "mesh"}, order \in Orders(Found(disk, ScenePaths)) :
           \E scenes \in {LazyScenes(order)} :
               /\ _scenes' = scenes
               /\ result' = Call("find_nodes_by_type", node_type,
                                 Returned(find_nodes_by_type(scenes, node_type)))
    /\ walks' = CountSceneWalk
    /\ UNCHANGED <<disk, _scripts, _project_info, edits, Parsers, Server>>

FindNodesByGroup ==
    /\ MayWalkScenes
    /\ \E order \in Orders(Found(disk, ScenePaths)) :
           \E scenes \in {LazyScenes(order)} :
               /\ _scenes' = scenes
               /\ result' = Call("find_nodes_by_group", "enemies",
                                 Returned(find_nodes_by_group(scenes, "enemies")))
    /\ walks' = CountSceneWalk
    /\ UNCHANGED <<disk, _scripts, _project_info, edits, Parsers, Server>>

FindScriptUsages ==
    /\ MayWalkScripts
    /\ \E order \in Orders(Found(disk, ScriptPaths)) :
           \E scripts \in {LazyScripts(order)} :
               /\ _scripts' = scripts
               /\ result' = Call("find_script_usages", "h",
                                 Returned(find_script_usages(scripts, "h")))
    /\ walks' = CountScriptWalk
    /\ UNCHANGED <<disk, _scenes, _project_info, edits, Parsers, Server>>

FindSignalConnections ==
    /\ MayWalkScenes
    /\ \E order \in Orders(Found(disk, ScenePaths)) :
           \E scenes \in {LazyScenes(order)} :
               /\ _scenes' = scenes
               /\ result' = Call("find_signal_connections", "die",
                                 Returned(find_signal_connections(scenes, "die")))
    /\ walks' = CountSceneWalk
    /\ UNCHANGED <<disk, _scripts, _project_info, edits, Parsers, Server>>

GetDependencyGraph ==
    /\ MayWalkScripts /\ MayWalkScenes
    /\ \E so \in Orders(Found(disk, ScriptPaths)), eo \in Orders(Found(disk, ScenePaths)) :
           \E scripts \in {LazyScripts(so)}, scenes \in {LazyScenes(eo)} :
               /\ _scripts' = scripts
               /\ _scenes' = scenes
               /\ result' = Call("get_dependency_graph", None,
                                 Returned(get_dependency_graph(scripts, scenes)))
    /\ walks' = [walks EXCEPT !.scripts = IF _scripts = <<>> THEN @ + 1 ELSE @,
                              !.scenes = IF _scenes = <<>> THEN @ + 1 ELSE @]
    /\ UNCHANGED <<disk, _project_info, edits, Parsers, Server>>

\* deps = self.get_dependency_graph() fills the caches, info =
\* self.get_project_info() stores the project info
FindOrphanedResources ==
    /\ MayWalkScripts /\ MayWalkScenes
    /\ \E so \in Orders(Found(disk, ScriptPaths)), eo \in Orders(Found(disk, ScenePaths)) :
           \E scripts \in {LazyScripts(so)}, scenes \in {LazyScenes(eo)},
              r \in {get_project_info(disk, _project_info)} :
               /\ _scripts' = scripts
               /\ _scenes' = scenes
               /\ _project_info' = r.info
               /\ result' = Call("find_orphaned_resources", None,
                                 IF r.out.raised THEN Raised
                                 ELSE Returned(find_orphaned_resources(
                                          get_dependency_graph(scripts, scenes),
                                          scripts, scenes, r.out.ret)))
    /\ walks' = [walks EXCEPT !.scripts = IF _scripts = <<>> THEN @ + 1 ELSE @,
                              !.scenes = IF _scenes = <<>> THEN @ + 1 ELSE @]
    /\ UNCHANGED <<disk, edits, Parsers, Server>>

AnalyzeScript ==
    /\ \E script_path \in ScriptPaths \cup {"missing.gd"} :
           result' = Call("analyze_script", script_path, analyze_script(disk, script_path))
    /\ UNCHANGED <<disk, _scripts, _scenes, _project_info, walks, edits, Parsers, Server>>

AnalyzeScene ==
    /\ \E scene_path \in ScenePaths \cup {"missing.tscn"} :
           result' = Call("analyze_scene", scene_path, analyze_scene(disk, scene_path))
    /\ UNCHANGED <<disk, _scripts, _scenes, _project_info, walks, edits, Parsers, Server>>

\* somebody saves or deletes a file of the project
EditDisk ==
    /\ edits < MaxEdits
    /\ \E p \in Editable :
           \E f \in FileStates(p) :
               /\ f # disk[p]
               /\ disk' = [disk EXCEPT ![p] = f]
    /\ edits' = edits + 1
    /\ UNCHANGED <<_scripts, _scenes, _project_info, result, walks, Parsers, Server>>

Next ==
    \/ GetProjectInfo
    \/ ScanAllScripts
    \/ ScanAllScenes
    \/ FindNodesByType
    \/ FindNodesByGroup
    \/ FindScriptUsages
    \/ FindSignalConnections
    \/ GetDependencyGraph
    \/ FindOrphanedResources
    \/ AnalyzeScript
    \/ AnalyzeScene
    \/ EditDisk

Spec == Init /\ [][Next]_vars

(***************************************************************************)
(* Specification of the free-text search: one project tree of text files,  *)
(* one search_in_files call                                                *)
(***************************************************************************)
\*  static func hit(amount, speed) -> int       (with blanks around it)
PaddedFuncLine == <<"SP">> \o FuncLine \o <<"SP", "SP">>
\* a list of 15 paths, each followed by a comma: 225 characters
PathList(n) == [i \in 1..(2 * n) |-> IF i % 2 = 1 THEN "res://hud.tscn" ELSE "COMMA"]
\*  X,res://hud.tscn,res://hud.tscn, ...     (227 characters between blanks)
LongLine == <<"SP", "X", "COMMA">> \o PathList(15) \o <<"SP">>
\* 13 paths, four blanks, then the word: it starts at character 200
LateHitLine == PathList(13) \o <<"SP", "SP", "SP", "SP", "hit">>

HitText == JoinLines(<<VarLine, FuncLine, PaddedFuncLine>>)
MissText == JoinLines(<<VarLine>>)
LongText == JoinLines(<<BlankLine, LongLine, LateHitLine>>)

SearchFileStates == {Absent, Unreadable, File(HitText), File(MissText), File(LongText)}

\* the file_types argument: None, one extension, two, one extension twice or
\* in two spellings, the empty list
SearchTypeLists == {NoObject, FileTypes(<<".gd">>), FileTypes(<<".tres", ".gd">>),
                    FileTypes(<<".gd", ".gd">>), FileTypes(<<".gd", "gd">>),
                    FileTypes(<<>>)}

InitSearch ==
    /\ disk \in [SearchPaths -> SearchFileStates]
    /\ _scripts = <<>> /\ _scenes = <<>> /\ _project_info = NoObject
    /\ result = NoResult /\ walks = NoWalks /\ edits = 0
    /\ ScriptIdle /\ SceneIdle /\ ServerIdle

SearchInFiles ==
    /\ result = NoResult
    /\ \E pattern \in {"hit", "x"}, file_types \in SearchTypeLists,
          walk \in Orders(Found(disk, SearchPaths)) :
           result' = Call("search_in_files",
                          [pattern |-> pattern, file_types |-> file_types],
                          Returned(search_in_files(disk, pattern, file_types, walk)))
    /\ UNCHANGED <<disk, _scripts, _scenes, _project_info, walks, edits, Parsers, Server>>

NextSearch == SearchInFiles

SpecSearch == InitSearch /\ [][NextSearch]_vars

(***************************************************************************)
(* Specification of the server: godot_set_project and the analyze_* tools  *)
(* over a file system with three directories                               *)
(***************************************************************************)
InitServer ==
    /\ disk = [p \in Paths |-> Absent]
    /\ _scripts = <<>> /\ _scenes = <<>> /\ _project_info = NoObject
    /\ result = NoResult /\ walks = NoWalks /\ edits = 0
    /\ ScriptIdle /\ SceneIdle /\ ServerIdle

\* call_tool("godot_set_project", {"project_path": path})
SetProjectCall(paths) ==
    /\ \E path \in paths :
           IF Exists(FileSystem(PathOf(path)), ConfigPath)
           THEN /\ _active_project' = path
                /\ tool_result' =
                       Answer("godot_set_project", path,
                              [type |-> "dict", returned |-> "none",
                               value |-> [success |-> TRUE, project |-> path]])
           ELSE /\ tool_result' =
                       Answer("godot_set_project", path,
                              [type |-> "dict", returned |-> "none",
                               value |-> Error("No project.godot found in", path)])
                /\ UNCHANGED _active_project
    /\ UNCHANGED <<_analyzer, _scripts, _scenes, _project_info, disk, result,
                   walks, edits, Parsers>>

SetProject == SetProjectCall(ProjectArgs) /\ UNCHANGED loop

\* call_tool(name, arguments) for a name that starts with "analyze_"
AnalyzeCall(tools) ==
    \E tool \in tools, ga \in {get_analyzer} :
        /\ _analyzer' = ga.object
        /\ IF ga.object = NoObject
           THEN /\ tool_result' =
                       Answer(tool.name, None,
                              [type |-> "dict", returned |-> "none",
                               value |-> Error("No project set", tool.name)])
                /\ UNCHANGED <<_scripts, _scenes, _project_info>>
           ELSE \E arg \in tool.args, d \in {FileSystem(ga.object.project_path)} :
                \E so \in Orders(Found(d, ScriptPaths)), eo \in Orders(Found(d, ScenePaths)) :
                \E r \in {Invoke(tool.method, arg, d, ga.fields, so, eo)} :
                    /\ _scripts' = r.an._scripts
                    /\ _scenes' = r.an._scenes
                    /\ _project_info' = r.an._project_info
                    /\ tool_result' = Answer(tool.name, arg, Result(tool, r.out))
        /\ UNCHANGED <<_active_project, disk, result, walks, edits, Parsers>>

AnalyzeTool == AnalyzeCall(Tools) /\ UNCHANGED loop

NextServer == SetProject \/ AnalyzeTool

SpecServer == InitServer /\ [][NextServer]_vars

(***************************************************************************)
(* Specification of the event loop: requests arrive at any time and every  *)
(* request is served by a call_tool coroutine of its own                   *)
(***************************************************************************)
LoopCalls == {"godot_set_project", "analyze_scan_scripts", "godot_ping"}
LoopArgs == {"/demo", "/empty"}

\* what the bridge answers to a live tool
BridgeAnswers == {[ok |-> TRUE], Error("bridge", "godot_ping")}

Moved(t, pc, running) == [loop EXCEPT !.pc[t] = pc, !.running = running]

\* a request arrives and its coroutine is scheduled
Submit(t) ==
    /\ loop.pc[t] = "idle"
    /\ \E name \in LoopCalls :
           loop' = [loop EXCEPT !.pc[t] = "pending", !.name[t] = name]
    /\ UNCHANGED <<_active_project, _analyzer, tool_result, _scripts, _scenes,
                   _project_info, disk, result, walks, edits, Parsers>>

\* the godot_set_project branch, from start to return
RunSetProject(t) ==
    /\ loop.running = 0 /\ loop.pc[t] = "pending"
    /\ Branch(loop.name[t]) = "set_project"
    /\ SetProjectCall(LoopArgs)
    /\ loop' = Moved(t, "done", 0)

\* the coroutine enters the analysis branch
BeginAnalyze(t) ==
    /\ loop.running = 0 /\ loop.pc[t] = "pending"
    /\ Branch(loop.name[t]) = "analyze"
    /\ loop' = Moved(t, "analyzing", Holder(t, "analyze"))
    /\ UNCHANGED <<_active_project, _analyzer, tool_result, _scripts, _scenes,
                   _project_info, disk, result, walks, edits, Parsers>>

\* get_analyzer(), the analyzer method and the result, up to the return
FinishAnalyze(t) ==
    /\ loop.pc[t] = "analyzing" /\ loop.running \in {0, t}
    /\ AnalyzeCall({tool \in Tools : tool.name = loop.name[t]})
    /\ loop' = Moved(t, "done", 0)

\* a live tool up to its await call_godot(...)
BeginLive(t) ==
    /\ loop.running = 0 /\ loop.pc[t] = "pending"
    /\ Branch(loop.name[t]) = "live"
    /\ loop' = Moved(t, "awaiting", Holder(t, "live"))
    /\ UNCHANGED <<_active_project, _analyzer, tool_result, _scripts, _scenes,
                   _project_info, disk, result, walks, edits, Parsers>>

\* the bridge has answered: the coroutine is resumed and returns
ResumeLive(t) ==
    /\ loop.pc[t] = "awaiting" /\ loop.running \in {0, t}
    /\ \E answer \in BridgeAnswers :
           tool_result' = Answer(loop.name[t], None,
                                 [type |-> "dict", returned |-> "none", value |-> answer])
    /\ loop' = Moved(t, "done", 0)
    /\ UNCHANGED <<_active_project, _analyzer, _scripts, _scenes, _project_info,
                   disk, result, walks, edits, Parsers>>

\* the response is sent and the coroutine is gone
Respond(t) ==
    /\ loop.pc[t] = "done"
    /\ loop' = [loop EXCEPT !.pc[t] = "idle", !.name[t] = None]
    /\ UNCHANGED <<_active_project, _analyzer, tool_result, _scripts, _scenes,
                   _project_info, disk, result, walks, edits, Parsers>>

NextLoop ==
    \E t \in Callers :
        \/ Submit(t)
        \/ RunSetProject(t)
        \/ BeginAnalyze(t)
        \/ FinishAnalyze(t)
        \/ BeginLive(t)
        \/ ResumeLive(t)
        \/ Respond(t)

SpecLoop == InitServer /\ [][NextLoop]_vars

(***************************************************************************)
(* Claims about the script parser (checked under SpecScript)               *)
(***************************************************************************)
\* The lines of the text on which an exported field is declared: the var
\* follows its annotation on the same line, or stands at the start of the
\* line after a line that holds the annotation alone.
ExportedDeclLines(lines) ==
    {L \in 1..Len(lines) :
        \/ Tok(lines[L], 1) \in ExportTokens /\ "var" \in Range(lines[L])
        \/ /\ L > 1 /\ Tok(lines[L], 1) = "var"
           /\ Tok(lines[L - 1], 1) \in ExportTokens
           /\ "var" \notin Range(lines[L - 1])}

\* C1: after parse_content no field that carries an export annotation (var on
\* the annotation's line or on the line after it) is in the plain-fields list,
\* and every line `@export var health: int = 100` yields the exported field
\* (health, int, default 100).
C1_ExportedNeverPlain ==
    gd_class # NoObject =>
        LET lines == SplitLines(gd_content)
        IN  /\ \A i \in 1..Len(gd_class.variables) :
                   gd_class.variables[i].line \notin ExportedDeclLines(lines)
            /\ \A L \in 1..Len(lines) :
                   lines[L] = ExportVarLine =>
                       \E i \in 1..Len(gd_class.exports) :
                           gd_class.exports[i] =
                               [name |-> "health", type |-> "int", hint |-> None,
                                default |-> <<"100">>, line |-> L]

\* The item reported at line L is declared there: the text from the start of
\* line L opens with one of the tokens in start, and name is the first word
\* after the first keyword kw.
DeclaredAt(lines, L, start, kw, name) ==
    /\ L \in 1..Len(lines)
    /\ LET rest == JoinLines(SubSeq(lines, L, Len(lines)))
       IN  /\ Tok(rest, 1) \in start
           /\ \E k \in 1..Len(rest) :
                  /\ rest[k] = kw
                  /\ \A j \in 1..(k - 1) : rest[j] # kw
                  /\ Tok(rest, SkipSpace(rest, k + 1)) = name

\* C2: the line reported for every signal, function, exported field and plain
\* field is the 1-based line on which its declaration starts, and every line
\* `signal died(amount)` at line L yields the signal (died, [amount], L).
C2_LineNumbers ==
    gd_class # NoObject =>
        LET lines == SplitLines(gd_content)
        IN  /\ \A i \in 1..Len(gd_class.signals) :
                   DeclaredAt(lines, gd_class.signals[i].line, {"signal"}, "signal",
                              gd_class.signals[i].name)
            /\ \A i \in 1..Len(gd_class.functions) :
                   DeclaredAt(lines, gd_class.functions[i].line, {"func", "static"},
                              "func", gd_class.functions[i].name)
            /\ \A i \in 1..Len(gd_class.exports) :
                   DeclaredAt(lines, gd_class.exports[i].line, ExportTokens, "var",
                              gd_class.exports[i].name)
            /\ \A i \in 1..Len(gd_class.variables) :
                   DeclaredAt(lines, gd_class.variables[i].line, {"var"}, "var",
                              gd_class.variables[i].name)
            /\ \A L \in 1..Len(lines) :
                   lines[L] = SignalLine =>
                       \E i \in 1..Len(gd_class.signals) :
                           gd_class.signals[i] =
                               [name |-> "died", parameters |-> << <<"amount">> >>,
                                line |-> L]

(***************************************************************************)
(* Claims about the scene parser (checked under SpecScene)                 *)
(***************************************************************************)
NodeStanzas(content) == SelectSeq(content, LAMBDA h : h.tag = "node")

\* the path a node stanza declares for itself
DeclaredPath(h) == IF h.parent = None THEN "." ELSE NodePath(h.parent, h.name)

\* one root node, then node stanzas whose parent path is the declared path of
\* a node stanza seen before
RootedScene(content) ==
    LET ns == NodeStanzas(content)
    IN  /\ ns # <<>>
        /\ ns[1].parent = None
        /\ \A i \in 2..Len(ns) :
               /\ ns[i].parent # None
               /\ \E j \in 1..(i - 1) : DeclaredPath(ns[j]) = ns[i].parent

\* C3: a scene of one root node and N further nodes with a valid parent path
\* parses to a flat list of N+1 nodes, and the children of the root are
\* exactly the nodes that declare the parent path ".", in file order.
C3_RootChildren ==
    (scene # NoObject /\ RootedScene(tscn_content)) =>
        LET ns == NodeStanzas(tscn_content)
        IN  /\ Len(scene.nodes) = Len(ns)
            /\ scene.root_node = 1
            /\ scene.nodes[1].children =
                   SelectSeq([i \in 1..Len(ns) |-> i], LAMBDA i : ns[i].parent = ".")

(***************************************************************************)
(* Claims about the analyzer (checked under Spec)                          *)
(***************************************************************************)
Ret == result.out.ret

\* how often the scene sc holds a node whose instance reference is the id of
\* an external resource with path P
InstancePairs(sc, P) ==
    Cardinality({pr \in (1..Len(sc.nodes)) \X (1..Len(sc.ext_resources)) :
                    /\ sc.nodes[pr[1]].instance # None
                    /\ sc.ext_resources[pr[2]].id = sc.nodes[pr[1]].instance
                    /\ sc.ext_resources[pr[2]].path = P})

ExtPaths(sc, P) ==
    Cardinality({r \in 1..Len(sc.ext_resources) : sc.ext_resources[r].path = P})

\* C4: in the dependency graph, the list of a cached scene holds the path of
\* the external resource that a node's instanced-scene reference names, once
\* per such node (on top of one entry per external resource); a reference
\* that matches no external-resource id adds nothing.
C4_InstanceDependencies ==
    (result.op = "get_dependency_graph") =>
        \A i \in 1..Len(_scenes) :
            LET sc == _scenes[i].value
                key == Res(_scenes[i].key)
                deps == IF key \in DOMAIN Ret THEN Ret[key] ELSE <<>>
            IN  /\ \A n \in 1..Len(sc.nodes), r \in 1..Len(sc.ext_resources) :
                       (sc.nodes[n].instance # None
                            /\ sc.ext_resources[r].id = sc.nodes[n].instance)
                       => sc.ext_resources[r].path \in Range(deps)
                /\ \A P \in PathTokens \cup Range(deps) :
                       Count(deps, P) = ExtPaths(sc, P) + InstancePairs(sc, P)

C4_Witness ==
    /\ result.op = "get_dependency_graph"
    /\ \E i \in 1..Len(_scenes) :
           /\ InstancePairs(_scenes[i].value, "res://hud.tscn") > 0
           /\ \E n \in 1..Len(_scenes[i].value.nodes) :
                  _scenes[i].value.nodes[n].instance = "9"

\* the paths that are a value somewhere in the dependency graph of the caches
Referenced == LET deps == get_dependency_graph(_scripts, _scenes)
              IN  UNION {Range(deps[k]) : k \in DOMAIN deps}

\* the target paths of the autoload entries that get_project_info reports
AutoloadTargets ==
    IF _project_info = NoObject THEN {}
    ELSE {_project_info.autoloads[i].path : i \in 1..Len(_project_info.autoloads)}

OrphansReturned == result.op = "find_orphaned_resources" /\ ~result.out.raised

\* C5: a script is in orphaned_scripts exactly if it is a cached script whose
\* resource path is no value of the dependency graph and no autoload target;
\* a script that is only registered as an autoload is not reported.
C5_OrphanedScripts ==
    OrphansReturned =>
        Ret.orphaned_scripts =
            {Res(k) : k \in Keys(_scripts)} \ (Referenced \cup AutoloadTargets)

C5_Witness ==
    /\ OrphansReturned
    /\ "game.gd" \in Keys(_scripts)
    /\ Res("game.gd") \in AutoloadTargets \ Referenced
    /\ Res("game.gd") \notin Ret.orphaned_scripts

\* C6: orphaned_scenes is the set of cached scene paths minus the values of
\* the dependency graph minus the autoload target paths.
C6_OrphanedScenes ==
    OrphansReturned =>
        Ret.orphaned_scenes =
            {Res(k) : k \in Keys(_scenes)} \ (Referenced \cup AutoloadTargets)

\* the step is a call of the operation op, which the action A models
Step(op, A) == result'.op = op /\ A

\* what a bulk scan over the files of S has to leave behind: res is what it
\* returned, cache the cache after it
ScanPost(S, res, cache) ==
    /\ ~res.out.raised
    /\ LET out == res.out.ret
       IN  /\ Len(out) = Cardinality(Found(disk, S))
           /\ {out[i].path : i \in 1..Len(out)} = Found(disk, S)
           /\ \A i \in 1..Len(out) :
                  IF disk[out[i].path].kind = "file"
                  THEN DOMAIN out[i] \cap {"error", "path"} = {"path"}
                  ELSE DOMAIN out[i] = {"path", "error"}
    /\ \A p \in Found(disk, S) : disk[p].kind = "file" => p \in Keys(cache)

C9_AtMostOneWalk ==
    ~walks.explicit => (walks.scripts <= 1 /\ walks.scenes <= 1)

\* the call returned a record with an error key and changed neither cache
\* nor the stored project info
NotFoundPost ==
    /\ ~result'.out.raised
    /\ "error" \in DOMAIN result'.out.ret
    /\ UNCHANGED <<_scripts, _scenes, _project_info>>

\* C10 as stated: get_project_info on a project root without a configuration
\* file, and analyze_script / analyze_scene on a path that does not exist,
\* return an error record, raise nothing and leave caches and project info
\* unchanged.
C10_NotFoundInline ==
    [][/\ (Step("get_project_info", GetProjectInfo) /\ ~Exists(disk, ConfigPath)) => NotFoundPost
       /\ (Step("analyze_script", AnalyzeScript) /\ ~Exists(disk, result'.arg)) => NotFoundPost
       /\ (Step("analyze_scene", AnalyzeScene) /\ ~Exists(disk, result'.arg)) => NotFoundPost]_vars

\* C10 amended: the same, for get_project_info only when no project info is
\* stored from an earlier successful call (a stored one is returned as it is).
C10_NotFoundInlineUnlessStored ==
    [][/\ (Step("get_project_info", GetProjectInfo) /\ ~Exists(disk, ConfigPath) /\ _project_info = NoObject)
              => NotFoundPost
       /\ (Step("analyze_script", AnalyzeScript) /\ ~Exists(disk, result'.arg)) => NotFoundPost
       /\ (Step("analyze_scene", AnalyzeScene) /\ ~Exists(disk, result'.arg)) => NotFoundPost]_vars

C10_Witness ==
    /\ result.op = "get_project_info"
    /\ ~Exists(disk, ConfigPath)
    /\ ~result.out.raised
    /\ "error" \in DOMAIN Ret
    /\ _project_info = NoObject
    /\ _scripts # <<>>

Readable(d, p) == Exists(d, p) /\ d[p].kind = "file"

\* C12: analyze_script and analyze_scene leave both caches as they are, and
\* for a readable file they return the serialized parse of the content the
\* file has on disk at the call, whatever the caches hold for that path.
C12_DetailBypassesCache ==
    [][/\ Step("analyze_script", AnalyzeScript) =>
              /\ UNCHANGED <<_scripts, _scenes>>
              /\ Readable(disk, result'.arg) =>
                     /\ ~result'.out.raised
                     /\ result'.out.ret = GDScriptParser_to_dict(
                            GDScriptParser_parse_file(disk, result'.arg))
       /\ Step("analyze_scene", AnalyzeScene) =>
              /\ UNCHANGED <<_scripts, _scenes>>
              /\ Readable(disk, result'.arg) =>
                     /\ ~result'.out.raised
                     /\ result'.out.ret = SceneDetail(
                            TscnParser_parse_file(disk, result'.arg))]_vars

\* a detail query on a script whose cached parse is older than the file
C12_Witness ==
    /\ result.op = "analyze_script"
    /\ Readable(disk, result.arg)
    /\ result.arg \in Keys(_scripts)
    /\ GDScriptParser_to_dict(Cached(_scripts, result.arg)) # Ret
    /\ Ret.signals # <<>>

\* the lines of the autoload section of a configuration file
RECURSIVE AutoloadLines(_, _)
AutoloadLines(content, inside) ==
    IF content = <<>> THEN <<>>
    ELSE IF Head(content).kind = "section"
    THEN AutoloadLines(Tail(content), Head(content).name = "autoload")
    ELSE (IF inside THEN <<Head(content)>> ELSE <<>>)
         \o AutoloadLines(Tail(content), inside)

\* C14: on an unchanged project get_project_info reports one autoload entry
\* per line of the autoload section (name and res:// path, the `*` removed),
\* and scan_all_scenes reports for every scene a node_count equal to the
\* number of its node stanzas; for the project with config/name="Demo", the
\* one autoload Game="*res://game.gd" and the one scene of Main (Node3D) and
\* Box (MeshInstance3D, parent `.`) that is name Demo, one autoload entry
\* Game -> res://game.gd and one summary with node_count 2.
C14_EndToEnd ==
    [][/\ (/\ Step("get_project_info", GetProjectInfo)
           /\ edits = 0 /\ Readable(disk, ConfigPath)) =>
              LET lines == AutoloadLines(disk[ConfigPath].content, FALSE)
                  info == result'.out.ret
              IN  /\ ~result'.out.raised
                  /\ Len(info.autoloads) = Len(lines)
                  /\ \A i \in 1..Len(lines) :
                         info.autoloads[i] = [name |-> lines[i].name,
                                              path |-> "res://" \o lines[i].path]
                  /\ disk = ScenarioDisk =>
                         /\ info.name = "Demo"
                         /\ info.autoloads =
                                <<[name |-> "Game", path |-> "res://game.gd"]>>
       /\ Step("scan_all_scenes", ScanAllScenes) =>
              LET out == result'.out.ret
              IN  /\ \A i \in 1..Len(out) :
                         Readable(disk, out[i].path) =>
                             /\ "node_count" \in DOMAIN out[i]
                             /\ out[i].node_count =
                                    Len(NodeStanzas(disk[out[i].path].content))
                  /\ disk = ScenarioDisk =>
                         (Len(out) = 1 /\ out[1].node_count = 2)]_vars

(***************************************************************************)
(* Claims about the free-text search (checked under SpecSearch)            *)
(***************************************************************************)
\* the extensions a search call looks for
TypesAsked(file_types) ==
    IF file_types = NoObject THEN {".gd", ".tscn", ".tres"} ELSE Range(file_types.list)

\* the files of the tree that the call has to look at
Asked(file_types) ==
    {f \in Found(disk, SearchPaths) : \E t \in TypesAsked(file_types) : f \in Matching(t)}

\* the 1-based numbers of the lines of f that the pattern is found in
HitLines(f, pattern) ==
    LET lines == SplitLines(disk[f].content)
    IN  {i \in 1..Len(lines) : LineHit(pattern, lines[i])}

\* the number of characters of a reported content
RECURSIVE Chars(_)
Chars(ts) == IF ts = <<>> THEN 0 ELSE Width(Head(ts)) + Chars(Tail(ts))
ContentChars(content) == Chars(content.tokens) + content.tail

\* C13: search_in_files reports each file with at least one matching line
\* exactly once (and no other file); every match carries the 1-based number
\* of a matching line and a content of at most 200 characters; a file that
\* cannot be read is omitted, nothing is raised, and the other files are
\* still searched.
C13_SearchOnce ==
    (result.op = "search_in_files") =>
        /\ ~result.out.raised
        /\ \A f \in SearchPaths :
               Cardinality({i \in 1..Len(Ret) : Ret[i].file = f}) =
                   IF /\ f \in Asked(result.arg.file_types)
                      /\ disk[f].kind = "file"
                      /\ HitLines(f, result.arg.pattern) # {}
                   THEN 1 ELSE 0
        /\ \A i \in 1..Len(Ret) :
               /\ {Ret[i].matches[j].line : j \in 1..Len(Ret[i].matches)}
                      = HitLines(Ret[i].file, result.arg.pattern)
               /\ \A j \in 1..Len(Ret[i].matches) :
                      ContentChars(Ret[i].matches[j].content) <= MaxContent

(***************************************************************************)
(* Claims about the server (checked under SpecServer)                      *)
(***************************************************************************)
Answered == tool_result # NoResult

\* C11 as stated: every query of the Project Analyzer returns a keyed record
\* at the top level, never a bare list.
C11_AnalyzerReturnsRecords ==
    (Answered /\ tool_result.result.returned \notin {"none", "raised"}) =>
        tool_result.result.returned = "dict"

\* C11 amended: every analyze_* tool call is answered with a keyed record;
\* where the analyzer method returned a bare list (bulk scans, structural,
\* symbol and connection search, free-text search), the record holds that
\* list under the one key of the tool.
C11_ToolsAnswerRecords ==
    Answered =>
        /\ tool_result.result.type = "dict"
        /\ tool_result.result.returned = "list" =>
               \E tool \in Tools :
                   /\ tool.name = tool_result.name
                   /\ tool.key # None
                   /\ DOMAIN tool_result.result.value = {tool.key}

C11_Witness ==
    /\ Answered
    /\ tool_result.name = "analyze_scan_scripts"
    /\ tool_result.result.returned = "list"
    /\ Len(tool_result.result.value.scripts) = 2

\* every cache entry is the parse of a file of the tree d, and the stored
\* project info is that of d
CachesFrom(d, scripts, scenes, info) ==
    /\ \A i \in 1..Len(scripts) :
           /\ Exists(d, scripts[i].key) /\ d[scripts[i].key].kind = "file"
           /\ scripts[i].value = GDScriptParser_parse_file(d, scripts[i].key)
    /\ \A i \in 1..Len(scenes) :
           /\ Exists(d, scenes[i].key) /\ d[scenes[i].key].kind = "file"
           /\ scenes[i].value = TscnParser_parse_file(d, scenes[i].key)
    /\ info # NoObject =>
           /\ Exists(d, ConfigPath) /\ d[ConfigPath].kind = "file"
           /\ info = ParseProjectInfo(d[ConfigPath].content)

\* C16: every analyze_* call made while a project is active is answered by an
\* analyzer whose project path is the active project, and the caches it
\* answers from hold only what was parsed from that project's tree, for any
\* sequence of godot_set_project and analyze_* calls.
C16_AnalyzerFollowsProject ==
    [][(AnalyzeTool /\ _active_project # None) =>
           /\ _analyzer' # NoObject
           /\ _analyzer'.project_path = PathOf(_active_project)
           /\ CachesFrom(FileSystem(PathOf(_active_project)),
                         _scripts', _scenes', _project_info')]_vars

(***************************************************************************)
(* The dependency graph and the scripts                                    *)
(***************************************************************************)

\* C15: in the result of get_dependency_graph the resource path of every
\* cached script is a key, and the value under it is the script's reference
\* list (same elements in the same order, duplicates kept), also when that
\* list is empty.
C15_EveryScriptKeyed ==
    (result.op = "get_dependency_graph") =>
        \A i \in 1..Len(_scripts) :
            /\ Res(_scripts[i].key) \in DOMAIN Ret
            /\ Ret[Res(_scripts[i].key)] = _scripts[i].value.preloads

(***************************************************************************)
(* Tree assembly (checked under SpecScene)                                 *)
(***************************************************************************)
\* the node stanzas NODE_PATTERN matches, in file order
MatchedNodes(content) ==
    SelectSeq(content, LAMBDA h : h.tag = "node" /\ h.index = None)

\* the key of the lookup table a parsed node is stored under
RegisteredUnder(n) ==
    IF n.parent = None THEN "."
    ELSE IF n.parent = "." THEN n.name
    ELSE n.parent \o "/" \o n.name

\* the nodes stored under the key Q when the n-th node is processed
RegisteredBefore(nodes, n, Q) ==
    {m \in 1..(n - 1) : RegisteredUnder(nodes[m]) = Q}

Latest(S) == CHOOSE x \in S : \A y \in S : y <= x
Earliest(S) == CHOOSE x \in S : \A y \in S : x <= y

\* the nodes that have the n-th node in their children list
ParentsOf(nodes, n) == {m \in 1..Len(nodes) : n \in Range(nodes[m].children)}

\* C17: in a parsed scene with a node without parent path, the root is the
\* first such node in file order, and a node that declares the parent `.`
\* behind it is a child of that first node, however many nodes without a
\* parent path follow (as long as only such nodes were stored under `.`).
C17_FirstRootStays ==
    scene # NoObject =>
        LET nodes == scene.nodes
            roots == {i \in 1..Len(nodes) : nodes[i].parent = None}
        IN  roots # {} =>
                /\ scene.root_node = Earliest(roots)
                /\ \A n \in 1..Len(nodes) :
                       (/\ nodes[n].parent = "."
                        /\ n > Earliest(roots)
                        /\ RegisteredBefore(nodes, n, ".") \subseteq roots)
                       => n \in Range(nodes[Earliest(roots)].children)

\* C18: every node stanza the pattern matches is in the flat node list, in
\* file order; a node whose parent path is stored under no key when it is
\* processed is in the children list of no node, and a node whose parent path
\* is stored is in the children list of some node, also behind a dangling one.
C18_DanglingNode ==
    scene # NoObject =>
        LET nodes == scene.nodes
            ns == MatchedNodes(tscn_content)
        IN  /\ Len(nodes) = Len(ns)
            /\ \A n \in 1..Len(nodes) :
                   /\ nodes[n].name = ns[n].name
                   /\ nodes[n].type = ns[n].type
                   /\ nodes[n].parent = ns[n].parent
                   /\ nodes[n].parent # None =>
                          (ParentsOf(nodes, n) = {}
                               <=> RegisteredBefore(nodes, n, nodes[n].parent) = {})

\* a dangling node between a root and a child of the root
C18_Witness ==
    /\ scene # NoObject
    /\ \E n \in 2..(Len(scene.nodes) - 1) :
           /\ scene.nodes[n].parent = "Missing"
           /\ ParentsOf(scene.nodes, n) = {}
           /\ scene.nodes[n - 1].parent = None
           /\ ParentsOf(scene.nodes, n + 1) = {n - 1}

\* C19: a node with a parent path is stored under its own path (`name` below
\* `.`, else `P/name`) whether or not its parent was found: a node declaring
\* the parent path Q is, once, a child of the node stored last under Q when it
\* is processed, and a child of no other node.
C19_LinkedUnderLatest ==
    scene # NoObject =>
        LET nodes == scene.nodes
        IN  \A n \in 1..Len(nodes) :
                nodes[n].parent # None =>
                    LET reg == RegisteredBefore(nodes, n, nodes[n].parent)
                    IN  IF reg = {} THEN ParentsOf(nodes, n) = {}
                        ELSE /\ ParentsOf(nodes, n) = {Latest(reg)}
                             /\ Count(nodes[Latest(reg)].children, n) = 1

\* the child of a dangling node is linked under it
C19_Witness ==
    /\ scene # NoObject
    /\ \E n \in 2..Len(scene.nodes) :
           /\ scene.nodes[n].parent = "Missing/C"
           /\ scene.nodes[n - 1].parent = "Missing"
           /\ ParentsOf(scene.nodes, n - 1) = {}
           /\ scene.nodes[n - 1].children = <<n>>

(***************************************************************************)
(* Rescans (checked under Spec)                                            *)
(***************************************************************************)
\* C20: after scan_all_scripts or scan_all_scenes, also when it is called
\* again on caches that are filled, the value cached for every file the scan
\* read is the parse of the content the file has at the scan, with every
\* field from that parse and none from the value cached before.
C20_RescanReplaces ==
    [][/\ Step("scan_all_scripts", ScanAllScripts) =>
              \A p \in Found(disk, ScriptPaths) :
                  Readable(disk, p) =>
                      /\ p \in Keys(_scripts')
                      /\ Cached(_scripts', p) = GDScriptParser_parse_file(disk, p)
       /\ Step("scan_all_scenes", ScanAllScenes) =>
              \A p \in Found(disk, ScenePaths) :
                  Readable(disk, p) =>
                      /\ p \in Keys(_scenes')
                      /\ Cached(_scenes', p) = TscnParser_parse_file(disk, p)]_vars

\* a rescan of the scripts that found an older parse of an edited file cached
C20_Witness ==
    /\ result.op = "scan_all_scripts"
    /\ walks.replaced
    /\ Readable(disk, "player.gd")
    /\ Cached(_scripts, "player.gd") = GDScriptParser_parse_file(disk, "player.gd")

(***************************************************************************)
(* Property lines (checked under SpecProperties)                           *)
(***************************************************************************)
\* the mapping parsed from the lines below the one header of the scene
ParsedProperties ==
    IF scene.nodes # <<>> THEN scene.nodes[1].properties
    ELSE scene.sub_resources[1].properties

\* the lines below the header as the loop sees them: stripped, blank ones left out
PropertyBody ==
    SelectSeq([i \in 1..Len(tscn_content[1].lines) |-> Strip(tscn_content[1].lines[i])],
              LAMBDA l : l # <<>>)

\* the position of the first `=` of a line (0 when it has none)
FirstEq(line) ==
    IF \E e \in 1..Len(line) : line[e] = "EQ"
    THEN CHOOSE e \in 1..Len(line) :
             line[e] = "EQ" /\ \A j \in 1..(e - 1) : line[j] # "EQ"
    ELSE 0

KeyText(line) == Strip(SubSeq(line, 1, FirstEq(line) - 1))
ValueText(line) == Strip(SubSeq(line, FirstEq(line) + 1, Len(line)))

\* a line `key = value`: a key that starts with a name and has no blank in
\* it, `=`, and a value
KeyValueLine(line) ==
    /\ FirstEq(line) > 1
    /\ KeyText(line) # <<>>
    /\ IsWord(KeyText(line)[1])
    /\ \A j \in 1..Len(KeyText(line)) : ~IsSpace(KeyText(line)[j])
    /\ ValueText(line) # <<>>

\* the lines behind the i-th one up to the next `key = value` line
RECURSIVE Continuation(_, _)
Continuation(body, i) ==
    IF i + 1 > Len(body) \/ KeyValueLine(body[i + 1]) THEN <<>>
    ELSE <<body[i + 1]>> \o Continuation(body, i + 1)

\* C23: the property mapping has one key per key of a `key = value` line, and
\* the value of a key is the value text of the last such line with that key,
\* followed, joined by newlines, by the non-blank lines behind it up to the
\* next `key = value` line; lines in front of the first `key = value` line
\* are in no value.
C23_PropertyValues ==
    scene # NoObject =>
        LET body == PropertyBody
            kv == {i \in 1..Len(body) : KeyValueLine(body[i])}
        IN  /\ Cardinality(DOMAIN ParsedProperties) =
                   Cardinality({KeyText(body[i]) : i \in kv})
            /\ \A k \in DOMAIN ParsedProperties :
                   \E i \in kv :
                       /\ KeyText(body[i]) = <<k>>
                       /\ \A j \in kv : KeyText(body[j]) = <<k>> => j <= i
                       /\ ParsedProperties[k] =
                              JoinLines(<<ValueText(body[i])>> \o Continuation(body, i))

(***************************************************************************)
(* References that form cycles (checked under Spec)                        *)
(***************************************************************************)
\* the references the cached resource with the resource path k holds itself
DirectReferences(k) ==
    Flatten([i \in 1..Len(_scripts) |->
        IF Res(_scripts[i].key) = k THEN _scripts[i].value.preloads ELSE <<>>])
    \o Flatten([i \in 1..Len(_scenes) |->
        IF Res(_scenes[i].key) = k
        THEN LET sc == _scenes[i].value
             IN  [r \in 1..Len(sc.ext_resources) |-> sc.ext_resources[r].path]
                 \o Flatten([n \in 1..Len(sc.nodes) |->
                        SelectSeq([r \in 1..Len(sc.ext_resources) |->
                                      IF sc.ext_resources[r].id = sc.nodes[n].instance
                                      THEN sc.ext_resources[r].path ELSE None],
                                  LAMBDA x : x # None)])
        ELSE <<>>])

C24_SiblingNamesUnique ==
    scene # NoObject =>
        \A m \in 1..Len(scene.nodes) :
            LET children == scene.nodes[m].children
            IN  \A i, j \in 1..Len(children) :
                    i # j => scene.nodes[children[i]].name # scene.nodes[children[j]].name

\* the number of nodes of a tree projection
RECURSIVE TreeSize(_)
TreeSize(tree) ==
    IF tree = <<>> THEN 0
    ELSE 1 + Len(Flatten([c \in 1..Len(tree.children) |->
                             [i \in 1..TreeSize(tree.children[c]) |-> c]]))

\* C26: the children links of a parsed scene form a forest: a node is in the
\* children list of at most one node and there once, that node stands in
\* front of it in the flat list (so no node is its own ancestor), and the
\* tree projection from the root is a finite tree of at most all nodes.
C26_ChildrenFormForest ==
    scene # NoObject =>
        LET nodes == scene.nodes
        IN  /\ \A n \in 1..Len(nodes) :
                   /\ Cardinality(ParentsOf(nodes, n)) <= 1
                   /\ \A m \in ParentsOf(nodes, n) :
                          /\ m < n
                          /\ Count(nodes[m].children, n) = 1
            /\ TreeSize(get_node_tree(scene)) <= Len(nodes)

\* a root with a child and a grandchild
C26_Witness ==
    /\ scene # NoObject
    /\ Len(scene.nodes) = 3
    /\ ParentsOf(scene.nodes, 2) = {1}
    /\ ParentsOf(scene.nodes, 3) = {2}
    /\ TreeSize(get_node_tree(scene)) = 3

\* whether the n-th node is reached from the root through children lists
RECURSIVE Reachable(_, _, _)
Reachable(nodes, root, n) ==
    \/ n = root
    \/ \E m \in 1..(n - 1) :
           n \in Range(nodes[m].children) /\ Reachable(nodes, root, m)

\* name and type of the nodes of a tree projection, parents first
RECURSIVE TreeLabels(_)
TreeLabels(tree) ==
    IF tree = <<>> THEN <<>>
    ELSE <<[name |-> tree.name, type |-> tree.type]>>
         \o Flatten([c \in 1..Len(tree.children) |-> TreeLabels(tree.children[c])])

\* C27: the tree projection of a scene without root is the empty record;
\* otherwise it holds one node for every node reached from the root through
\* children lists and no other, under the node's name and its declared type,
\* or the label "(instanced)" when it declares none.
C27_TreeProjection ==
    scene # NoObject =>
        LET nodes == scene.nodes
            tree == get_node_tree(scene)
            reached == {n \in 1..Len(nodes) : Reachable(nodes, scene.root_node, n)}
            label(n) == [name |-> nodes[n].name,
                         type |-> IF nodes[n].type = None THEN "(instanced)"
                                  ELSE nodes[n].type]
        IN  IF scene.root_node = 0 THEN tree = <<>>
            ELSE /\ Len(TreeLabels(tree)) = Cardinality(reached)
                 /\ \A n \in reached :
                        Count(TreeLabels(tree), label(n)) =
                            Cardinality({m \in reached : label(m) = label(n)})

\* a root with an instanced child without type, and a dangling node left out
C27_Witness ==
    /\ scene # NoObject
    /\ scene.root_node # 0
    /\ Len(TreeLabels(get_node_tree(scene))) = 2
    /\ TreeLabels(get_node_tree(scene))[2].type = "(instanced)"
    /\ \E n \in 1..Len(scene.nodes) :
           scene.nodes[n].parent = "Missing" /\ ~Reachable(scene.nodes, scene.root_node, n)

(***************************************************************************)
(* The caches after a scan (checked under Spec)                            *)
(***************************************************************************)
\* the paths a bulk scan reported with a summary
Summarized(out) == {out[i].path : i \in {j \in 1..Len(out) : "error" \notin DOMAIN out[j]}}

\* C25: after every scan_all_scripts (scan_all_scenes) the keys of the script
\* (scene) cache are the paths that this scan reported with a summary: a path
\* it reported with an error, or did not find any more, has no cache entry.
C25_CacheKeysAreLastScan ==
    [][/\ Step("scan_all_scripts", ScanAllScripts) =>
              Keys(_scripts') = Summarized(result'.out.ret)
       /\ Step("scan_all_scenes", ScanAllScenes) =>
              Keys(_scenes') = Summarized(result'.out.ret)]_vars

(***************************************************************************)
(* The stored project info (checked under Spec)                            *)
(***************************************************************************)
\* C28: a get_project_info call that finds no configuration file and no
\* stored info stores nothing; a call that finds no stored info and a
\* readable file returns and stores the metadata of that file; and stored
\* info is returned as it is by every later call and never changed by any
\* call or by a change of the file.
C28_ProjectInfoRemembered ==
    [][/\ (_project_info # NoObject) => _project_info' = _project_info
       /\ Step("get_project_info", GetProjectInfo) =>
              /\ _project_info # NoObject => result'.out = Returned(_project_info)
              /\ (_project_info = NoObject /\ ~Exists(disk, ConfigPath)) =>
                     /\ "error" \in DOMAIN result'.out.ret
                     /\ _project_info' = NoObject
              /\ (_project_info = NoObject /\ Readable(disk, ConfigPath)) =>
                     /\ ~result'.out.raised
                     /\ DOMAIN result'.out.ret =
                            {"path", "name", "autoloads", "input_actions"}
                     /\ Len(result'.out.ret.autoloads) =
                            Len(AutoloadLines(disk[ConfigPath].content, FALSE))
                     /\ _project_info' = result'.out.ret]_vars

\* a call returned the stored metadata after the file was changed or deleted
C28_Witness ==
    /\ result.op = "get_project_info"
    /\ walks.kept
    /\ Ret = _project_info
    /\ Ret.name = "Demo"

TurnedDown(answer) ==
    /\ answer.result.type = "dict"
    /\ "error" \in DOMAIN answer.result.value

\* C30: a godot_set_project call for a directory without configuration file
\* is answered with an error record and changes neither the active project
\* nor the analyzer nor its caches; an analyze_* call made while no project
\* was ever selected is answered with an error record and creates no analyzer.
C30_TurnedDownCallsChangeNothing ==
    [][/\ (/\ SetProject
           /\ tool_result'.name = "godot_set_project"
           /\ ~Exists(FileSystem(PathOf(tool_result'.arg)), ConfigPath)) =>
              /\ TurnedDown(tool_result')
              /\ UNCHANGED <<_active_project, _analyzer, _scripts, _scenes,
                             _project_info>>
       /\ (/\ AnalyzeTool
           /\ tool_result'.name # "godot_set_project"
           /\ _active_project = None) =>
              /\ TurnedDown(tool_result')
              /\ _analyzer' = NoObject
              /\ UNCHANGED <<_active_project, _scripts, _scenes, _project_info>>]_vars

\* a selection was turned down while an analyzer with filled caches existed
C30_Witness ==
    /\ Answered
    /\ tool_result.name = "godot_set_project"
    /\ TurnedDown(tool_result)
    /\ _analyzer # NoObject
    /\ _active_project = "/demo"
    /\ _scripts # <<>>

(***************************************************************************)
(* The analysis branch on the event loop (checked under SpecLoop)          *)
(***************************************************************************)
Analyzing == {t \in Callers : loop.pc[t] = "analyzing"}

\* C21: whatever calls are outstanding, at most one call_tool coroutine is
\* inside the analysis branch, and it holds the event loop from the moment
\* it enters the branch until it returns, so no other coroutine runs between
\* its get_analyzer() and its result.
C21_OneCallerInsideAnalysis ==
    /\ Cardinality(Analyzing) <= 1
    /\ \A t \in Analyzing : loop.running = t

\* one call is inside the analysis branch while a live tool awaits the bridge
\* and caches are filled
C21_Witness ==
    /\ \E t, u \in Callers :
           /\ loop.pc[t] = "analyzing"
           /\ loop.pc[u] = "awaiting"
    /\ _scripts # <<>>

====
